---- MODULE Spec2Model ----
(***************************************************************************)
(* Contact-App: the resilient CSV ingestion pipeline.                      *)
(*                                                                         *)
(*   csvService   fetchCSVFromURL, parseCSVWithFallbacks, manualCSVParse,  *)
(*                loadLocalCSV, formatPhone, formatContact, getContacts,   *)
(*                clearContactsCache                                       *)
(*   cacheService downloadAndCacheCSV, clearCache                          *)
(*   exportService exportContacts                                          *)
(*   App          loadContacts, switchToOfflineMode,                       *)
(*                retryWithDifferentMethod                                 *)
(*   config       useLocalCSV                                              *)
(*                                                                         *)
(* Text is a sequence of one-character strings, so that trimming,          *)
(* splitting and tokenizing are computed character by character.  An async *)
(* function is a sequence of atomic steps, one per stretch of code between *)
(* two awaits that touch shared state; calls interleave at those points.   *)
(***************************************************************************)
EXTENDS Integers, Sequences, FiniteSets, TLC

-----------------------------------------------------------------------------
(* Bounds of the model *)

\* number of ticks the clock may advance
MaxTicks == 2
\* number of getContacts calls started in a behaviour
MaxCalls == 2

-----------------------------------------------------------------------------
(* Characters and string primitives (JavaScript String methods) *)

\* the characters \s matches, as far as the modelled texts use them
WS == {" ", "\t", "\n", "\r"}

Digits == {"0", "1", "2", "3", "4", "5", "6", "7", "8", "9"}

Min(S) == CHOOSE i \in S : \A j \in S : i <= j

\* s.length
length(s) == Len(s)

\* index of the first c in s at or after position from (1-based), 0 if none
indexOf(s, c, from) ==
    LET hits == {i \in from..Len(s) : s[i] = c}
    IN  IF hits = {} THEN 0 ELSE Min(hits)

\* s.substring(a-1, b) in JavaScript terms: characters a..b
substring(s, a, b) == SubSeq(s, a, b)

Max(S) == CHOOSE i \in S : \A j \in S : j <= i

\* s.trimStart()
trimStart(s) ==
    LET solid == {i \in 1..Len(s) : s[i] \notin WS}
    IN  IF solid = {} THEN <<>> ELSE SubSeq(s, Min(solid), Len(s))

\* s.trim()
trim(s) ==
    LET solid == {i \in 1..Len(s) : s[i] \notin WS}
    IN  IF solid = {} THEN <<>> ELSE SubSeq(s, Min(solid), Max(solid))

\* s.replace(/\s+/g, '_')
RECURSIVE replaceWsRuns(_)
replaceWsRuns(s) ==
    IF s = <<>> THEN <<>>
    ELSE IF Head(s) \in WS
         THEN <<"_">> \o replaceWsRuns(trimStart(Tail(s)))
         ELSE <<Head(s)>> \o replaceWsRuns(Tail(s))

\* variant: whitespace is removed, s.replace(/\s/g, '')
removeWs(s) == SelectSeq(s, LAMBDA ch : ch \notin WS)

\* s.replace(/\s/g, '_')
replaceWsEach(s) == [i \in 1..Len(s) |-> IF s[i] \in WS THEN "_" ELSE s[i]]

\* s.replace(/"/g, '')
removeQuotes(s) == SelectSeq(s, LAMBDA ch : ch # "\"")

\* s.replace(/^"|"$/g, '')
stripOuterQuotes(s) ==
    LET a == IF s # <<>> /\ Head(s) = "\"" THEN Tail(s) ELSE s
    IN  IF a # <<>> /\ a[Len(a)] = "\"" THEN SubSeq(a, 1, Len(a) - 1) ELSE a

\* s.replace(/\D/g, '')
digitsOf(s) == SelectSeq(s, LAMBDA ch : ch \in Digits)

\* s.split(sep) for a one-character separator
RECURSIVE split(_, _)
split(s, sep) ==
    LET i == indexOf(s, sep, 1)
    IN  IF i = 0 THEN <<s>>
        ELSE <<SubSeq(s, 1, i - 1)>> \o split(SubSeq(s, i + 1, Len(s)), sep)

\* a JavaScript string is truthy iff it is non-empty
truthy(s) == s # <<>>

\* n copies of the character ch
Rep(ch, n) == [i \in 1..n |-> ch]

-----------------------------------------------------------------------------
(* Header names the code looks up, the placeholder name and the bundled data *)

K_Name == <<"N", "a", "m", "e">>
K_name == <<"n", "a", "m", "e">>
K_Company_name == <<"C", "o", "m", "p", "a", "n", "y", "_", "n", "a", "m", "e">>
K_Company_sp_name == <<"C", "o", "m", "p", "a", "n", "y", " ", "n", "a", "m", "e">>
K_company == <<"c", "o", "m", "p", "a", "n", "y">>
K_organisation == <<"o", "r", "g", "a", "n", "i", "s", "a", "t", "i", "o", "n">>
K_Company == <<"C", "o", "m", "p", "a", "n", "y">>
K_Email == <<"E", "m", "a", "i", "l">>
K_email == <<"e", "m", "a", "i", "l">>
K_Email_Address == <<"E", "m", "a", "i", "l", "_", "A", "d", "d", "r", "e", "s", "s">>
K_Phone == <<"P", "h", "o", "n", "e">>
K_phone == <<"p", "h", "o", "n", "e">>
K_mobile == <<"m", "o", "b", "i", "l", "e">>
K_telephone == <<"t", "e", "l", "e", "p", "h", "o", "n", "e">>
K_Street_Address == <<"S", "t", "r", "e", "e", "t", "_", "A", "d", "d", "r", "e", "s", "s">>
K_Street_sp_Address == <<"S", "t", "r", "e", "e", "t", " ", "A", "d", "d", "r", "e", "s", "s">>
K_address == <<"a", "d", "d", "r", "e", "s", "s">>
K_Address == <<"A", "d", "d", "r", "e", "s", "s">>
K_City == <<"C", "i", "t", "y">>
K_city == <<"c", "i", "t", "y">>
K_State == <<"S", "t", "a", "t", "e">>
K_state == <<"s", "t", "a", "t", "e">>
K_province == <<"p", "r", "o", "v", "i", "n", "c", "e">>
K_Country == <<"C", "o", "u", "n", "t", "r", "y">>
K_country == <<"c", "o", "u", "n", "t", "r", "y">>
K_Open_balance == <<"O", "p", "e", "n", "_", "b", "a", "l", "a", "n", "c", "e">>
K_Open_sp_balance == <<"O", "p", "e", "n", " ", "b", "a", "l", "a", "n", "c", "e">>
K_balance == <<"b", "a", "l", "a", "n", "c", "e">>
K_Zip == <<"Z", "i", "p">>
K_zip == <<"z", "i", "p">>
K_postal_code == <<"p", "o", "s", "t", "a", "l", "_", "c", "o", "d", "e">>
K_id == <<"i", "d">>

UnknownContact == <<"U", "n", "k", "n", "o", "w", "n", " ", "C", "o", "n", "t", "a", "c", "t">>
localCSVData ==
       <<"N", "a", "m", "e", ",", "C", "o", "m", "p", "a", "n", "y", "_", "n", "a", "m", "e", ",", "E", "m", "a", "i", "l", ",", "P", "h", "o", "n", "e", ",", "C", "i", "t", "y", ",", "C", "o", "u", "n", "t", "r", "y", "\n">>
    \o <<"J", "o", "h", "n", " ", "D", "o", "e", ",", "T", "e", "c", "h", " ", "C", "o", "r", "p", ",", "j", "o", "h", "n", ".", "d", "o", "e", "@", "e", "m", "a", "i", "l", ".", "c", "o", "m", ",", "+", "1", "-", "5", "5", "5", "-", "0", "1", "2", "3", ",", "N", "e", "w", " ", "Y", "o", "r", "k", ",", "U", "S", "A", "\n">>
    \o <<"J", "a", "n", "e", " ", "S", "m", "i", "t", "h", ",", "D", "e", "s", "i", "g", "n", " ", "S", "t", "u", "d", "i", "o", ",", "j", "a", "n", "e", ".", "s", "m", "i", "t", "h", "@", "e", "m", "a", "i", "l", ".", "c", "o", "m", ",", "+", "1", "-", "5", "5", "5", "-", "0", "1", "2", "4", ",", "L", "o", "s", " ", "A", "n", "g", "e", "l", "e", "s", ",", "U", "S", "A", "\n">>
    \o <<"M", "i", "k", "e", " ", "J", "o", "h", "n", "s", "o", "n", ",", "M", "a", "r", "k", "e", "t", "i", "n", "g", " ", "I", "n", "c", ",", "m", "i", "k", "e", ".", "j", "o", "h", "n", "s", "o", "n", "@", "e", "m", "a", "i", "l", ".", "c", "o", "m", ",", "+", "1", "-", "5", "5", "5", "-", "0", "1", "2", "5", ",", "C", "h", "i", "c", "a", "g", "o", ",", "U", "S", "A", "\n">>
    \o <<"S", "a", "r", "a", "h", " ", "W", "i", "l", "s", "o", "n", ",", "S", "a", "l", "e", "s", " ", "C", "o", ",", "s", "a", "r", "a", "h", ".", "w", "i", "l", "s", "o", "n", "@", "e", "m", "a", "i", "l", ".", "c", "o", "m", ",", "+", "1", "-", "5", "5", "5", "-", "0", "1", "2", "6", ",", "M", "i", "a", "m", "i", ",", "U", "S", "A", "\n">>
    \o <<"D", "a", "v", "i", "d", " ", "B", "r", "o", "w", "n", ",", "C", "o", "n", "s", "u", "l", "t", "i", "n", "g", " ", "L", "t", "d", ",", "d", "a", "v", "i", "d", ".", "b", "r", "o", "w", "n", "@", "e", "m", "a", "i", "l", ".", "c", "o", "m", ",", "+", "1", "-", "5", "5", "5", "-", "0", "1", "2", "7", ",", "S", "e", "a", "t", "t", "l", "e", ",", "U", "S", "A">>
-----------------------------------------------------------------------------
(* Papa.parse, the CSV library called by parseCSVWithFallbacks and         *)
(* loadLocalCSV, for delimiter ',', quoteChar and escapeChar '"'           *)

\* value.replace(/""/g, '"'): an escaped quote inside a quoted field
RECURSIVE unescapeQuotes(_)
unescapeQuotes(s) ==
    IF Len(s) < 2 THEN s
    ELSE IF s[1] = "\"" /\ s[2] = "\""
         THEN <<"\"">> \o unescapeQuotes(SubSeq(s, 3, Len(s)))
         ELSE <<s[1]>> \o unescapeQuotes(Tail(s))

\* number of blanks between a closing quote at q and position upTo, when
\* nothing but blanks lies between them
extraSpaces(s, q, upTo) ==
    IF upTo = 0 THEN 0
    ELSE LET between == SubSeq(s, q + 1, upTo - 1)
         IN  IF between # <<>> /\ trim(between) = <<>> THEN Len(between) ELSE 0

\* The tokenizer: cursor is the start of the next field, row the fields of
\* the current row, rows the finished rows, errs the number of quote errors.
RECURSIVE PapaScan(_, _, _, _, _)
RECURSIVE PapaQuoted(_, _, _, _, _, _)
PapaScan(s, cursor, row, rows, errs) ==
    IF cursor <= Len(s) /\ s[cursor] = "\""
    THEN PapaQuoted(s, cursor, cursor, row, rows, errs)
    ELSE LET nextDelim   == indexOf(s, ",", cursor)
             nextNewline == indexOf(s, "\n", cursor)
         IN  IF nextDelim # 0 /\ (nextNewline = 0 \/ nextDelim < nextNewline)
             THEN PapaScan(s, nextDelim + 1,
                           Append(row, SubSeq(s, cursor, nextDelim - 1)), rows, errs)
             ELSE IF nextNewline # 0
             THEN PapaScan(s, nextNewline + 1, <<>>,
                           Append(rows, Append(row, SubSeq(s, cursor, nextNewline - 1))),
                           errs)
             ELSE [rows |-> Append(rows, Append(row, SubSeq(s, cursor, Len(s)))),
                   errs |-> errs]

\* A field that opens with a quote at cursor; quoteSearch is where the search
\* for its closing quote resumes.
PapaQuoted(s, cursor, quoteSearch, row, rows, errs) ==
    LET q == indexOf(s, "\"", quoteSearch + 1)
    IN  IF q = 0
        THEN \* MissingQuotes: the rest of the input is the field
             [rows |-> Append(rows, Append(row, SubSeq(s, cursor + 1, Len(s)))),
              errs |-> errs + 1]
        ELSE IF q = Len(s)
        THEN [rows |-> Append(rows,
                         Append(row, unescapeQuotes(SubSeq(s, cursor + 1, q - 1)))),
              errs |-> errs]
        ELSE IF s[q + 1] = "\""
        THEN PapaQuoted(s, cursor, q + 1, row, rows, errs)
        ELSE LET nextDelim   == indexOf(s, ",", q + 1)
                 nextNewline == indexOf(s, "\n", q + 1)
                 checkUpTo   == IF nextNewline = 0 THEN nextDelim
                                ELSE IF nextDelim = 0 THEN 0
                                ELSE Min({nextDelim, nextNewline})
                 spDelim     == extraSpaces(s, q, checkUpTo)
                 spNewline   == extraSpaces(s, q, nextNewline)
                 value       == unescapeQuotes(SubSeq(s, cursor + 1, q - 1))
             IN  IF q + 1 + spDelim <= Len(s) /\ s[q + 1 + spDelim] = ","
                 THEN PapaScan(s, q + 2 + spDelim, Append(row, value), rows, errs)
                 ELSE IF q + 1 + spNewline <= Len(s) /\ s[q + 1 + spNewline] = "\n"
                 THEN PapaScan(s, q + 2 + spNewline, <<>>,
                               Append(rows, Append(row, value)), errs)
                 ELSE \* InvalidQuotes: the quote is taken as part of the text
                      PapaQuoted(s, cursor, q + 1, row, rows, errs + 1)

\* skipEmptyLines: 'greedy' drops a row whose fields are all blank, true
\* drops a row that is the single empty field
testEmptyLine(row, greedy) ==
    IF greedy
    THEN \A i \in 1..Len(row) : trim(row[i]) = <<>>
    ELSE Len(row) = 1 /\ row[1] = <<>>

\* the key under which the fields beyond the header count are collected
ParsedExtra == <<"_", "_", "p", "a", "r", "s", "e", "d", "_", "e", "x", "t", "r", "a">>

\* transformHeader: (header) => header.trim().replace(/\s+/g, '_')
transformHeader(header) == replaceWsRuns(trim(header))

\* one data row as an object keyed by the header fields; a later duplicate
\* header overwrites an earlier one
PapaRowObject(fields, row) ==
    LET n    == Len(fields)
        used == 1..(IF Len(row) < n THEN Len(row) ELSE n)
        keys == {fields[j] : j \in used}
               \cup (IF Len(row) > n THEN {ParsedExtra} ELSE {})
    IN  [k \in keys |->
            IF k \in {fields[j] : j \in used}
            THEN row[CHOOSE j \in used :
                        fields[j] = k /\ \A i \in used : fields[i] = k => i <= j]
            ELSE SubSeq(row, n + 1, Len(row))[1]]

\* the row objects of the data rows, and the errors: those of the tokenizer
\* plus one for each row whose field count differs from the header's
PapaData(fields, body, errs) ==
    [data   |-> [i \in 1..Len(body) |-> PapaRowObject(fields, body[i])],
     errors |-> errs + Cardinality({i \in 1..Len(body) : Len(body[i]) # Len(fields)})]

\* the first row kept is the header row
PapaHeader(kept, errs) ==
    IF kept = <<>>
    THEN [data |-> <<>>, errors |-> errs]
    ELSE PapaData([j \in 1..Len(kept[1]) |-> transformHeader(kept[1][j])],
                  Tail(kept), errs)

\* skipEmptyLines applied to the rows of the tokenizer
PapaKept(scan, greedy) ==
    PapaHeader(SelectSeq(scan.rows, LAMBDA r : ~testEmptyLine(r, greedy)), scan.errs)

\* newline: '' lets Papa guess the line ending: carriage return and line
\* feed when the input has such pairs, as the texts Papa.unparse writes do
usesCRLF(input) == \E i \in 1..(Len(input) - 1) : input[i] = "\r" /\ input[i + 1] = "\n"

\* the input with every carriage return before a line feed left out, which
\* the tokenizer for the line feed reads as Papa reads the input itself
lineFeeds(input) ==
    SelectSeq([i \in 1..Len(input) |->
                  IF input[i] = "\r" /\ i < Len(input) /\ input[i + 1] = "\n"
                  THEN "" ELSE input[i]],
              LAMBDA ch : ch # "")

\* the rows of the tokenizer for an input whose line ending is the line feed
PapaRows(input) ==
    IF input = <<>> THEN [rows |-> <<>>, errs |-> 0]
    ELSE PapaScan(input, 1, <<>>, <<>>, 0)

\* Papa.parse(input, {header: true, skipEmptyLines, transformHeader}):
\* data is the list of row objects, errors the number of reported errors
PapaParse(input, greedy) ==
    PapaKept(PapaRows(IF usesCRLF(input) THEN lineFeeds(input) ELSE input), greedy)

-----------------------------------------------------------------------------
(* csvService: the parsers *)

\* contact[k] when the object has the property, else undefined (falsy)
get(contact, k) == IF k \in DOMAIN contact THEN contact[k] ELSE <<>>

\* first truthy value among the aliases, in order, else dflt:  a || b || dflt
RECURSIVE firstTruthy(_, _, _)
firstTruthy(contact, aliases, dflt) ==
    IF aliases = <<>> THEN dflt
    ELSE IF truthy(get(contact, Head(aliases))) THEN get(contact, Head(aliases))
    ELSE firstTruthy(contact, Tail(aliases), dflt)

\* the filter of parseCSVWithFallbacks: more than one key, and one of Name,
\* Email, Phone, Company_name with a non-blank value
validContact(contact) ==
    LET has(k) == truthy(get(contact, k)) /\ trim(get(contact, k)) # <<>>
    IN  /\ Cardinality(DOMAIN contact) > 1
        /\ (has(K_Name) \/ has(K_Email) \/ has(K_Phone) \/ has(K_Company_name))

\* the position of the first comma outside quotes at or after from, 0 if
\* none: inQuotes is toggled by every quote before it
nextSplit(line, from) ==
    LET hits == {j \in from..Len(line) :
                    /\ line[j] = ","
                    /\ Cardinality({i \in 1..(j - 1) : line[i] = "\""}) % 2 = 0}
    IN  IF hits = {} THEN 0 ELSE Min(hits)

\* values.push(current.trim().replace(/^"|"$/g, '')), where current is the
\* stretch of the line without its quotes
manualValue(stretch) == stripOuterQuotes(trim(removeQuotes(stretch)))

\* the quote-aware tokenizer of manualCSVParse over one trimmed line, from
\* one comma outside quotes to the next
RECURSIVE manualValues(_, _, _)
manualValues(line, from, values) ==
    IF nextSplit(line, from) = 0
    THEN Append(values, manualValue(SubSeq(line, from, Len(line))))
    ELSE manualValues(line, nextSplit(line, from) + 1,
                      Append(values,
                             manualValue(SubSeq(line, from, nextSplit(line, from) - 1))))

\* headerLine.split(',').map(h => h.replace(/"/g, '').trim().replace(/\s+/g, '_'))
manualHeaderNames(parts) ==
    [i \in 1..Len(parts) |-> replaceWsRuns(trim(removeQuotes(parts[i])))]

\* the header names of manualCSVParse: split on every comma, quotes removed
manualHeaders(headerLine) == manualHeaderNames(split(headerLine, ","))

\* the object built from one line: values zipped against headers by position
manualContact(headers, values) ==
    LET m    == IF Len(headers) < Len(values) THEN Len(headers) ELSE Len(values)
        keys == {headers[k] : k \in 1..m}
    IN  [h \in keys |->
            values[CHOOSE k \in 1..m :
                      headers[k] = h /\ \A i \in 1..m : headers[i] = h => i <= k]]

\* if (contact.Name || contact.Email || contact.Phone || contact['Company_name'])
manualKeeps(contact) ==
    \/ truthy(get(contact, K_Name))
    \/ truthy(get(contact, K_Email))
    \/ truthy(get(contact, K_Phone))
    \/ truthy(get(contact, K_Company_name))

\* the contact objects manualCSVParse builds, one per non-blank line
manualObjects(headers, nonBlank) ==
    [i \in 1..Len(nonBlank) |->
        manualContact(headers, manualValues(nonBlank[i], 1, <<>>))]

\* the loop of manualCSVParse over the non-blank lines after the header
manualRows(headers, nonBlank) == SelectSeq(manualObjects(headers, nonBlank), manualKeeps)

\* const line = lines[i].trim(); if (!line) continue;
manualNonBlank(lines) ==
    SelectSeq([i \in 1..(Len(lines) - 1) |-> trim(lines[i + 1])], LAMBDA l : l # <<>>)

\* manualCSVParse after the split into lines
manualLines(lines) ==
    IF Len(lines) < 2
    THEN [ok |-> FALSE, data |-> <<>>]
    ELSE [ok   |-> TRUE,
          data |-> manualRows(manualHeaders(trim(lines[1])), manualNonBlank(lines))]

\* manualCSVParse: ok is FALSE when it throws 'CSV has insufficient lines'
manualCSVParse(csvText) == manualLines(split(csvText, "\n"))

\* the complete callback after the filter: reject when no row is valid
papaResolve(validContacts) == [ok |-> validContacts # <<>>, data |-> validContacts]

\* one Papa strategy of parseCSVWithFallbacks: the complete callback filters
\* the rows and rejects when none is valid; reported errors are only logged
papaStrategy(csvText, greedy) ==
    papaResolve(SelectSeq(PapaParse(csvText, greedy).data, validContact))

\* the loop over the strategies: the first that does not throw decides
firstResolved(strict, relaxed, manual) ==
    IF strict.ok
    THEN [ok |-> TRUE, data |-> strict.data, strategy |-> "Enhanced Standard"]
    ELSE IF relaxed.ok
    THEN [ok |-> TRUE, data |-> relaxed.data, strategy |-> "Relaxed"]
    ELSE IF manual.ok
    THEN [ok |-> TRUE, data |-> manual.data, strategy |-> "Manual"]
    ELSE [ok |-> FALSE, data |-> <<>>, strategy |-> "none"]

\* parseCSVWithFallbacks: strategies 'Enhanced Standard', 'Relaxed', 'Manual'
\* in this order.  ok is FALSE when it throws 'All parsing strategies failed'.
parseCSVWithFallbacks(csvText) ==
    firstResolved(papaStrategy(csvText, TRUE), papaStrategy(csvText, FALSE),
                  manualCSVParse(csvText))

\* loadLocalCSV: the bundled sample rows; never rejects and filters nothing
loadLocalCSV == PapaParse(localCSVData, FALSE).data

-----------------------------------------------------------------------------
(* csvService: the Field Normalizer *)

\* variant: eleven digits are formatted too
formatPhoneFromTen(phone) ==
    IF ~truthy(phone) THEN <<>>
    ELSE IF Len(digitsOf(phone)) >= 10
         THEN <<"(">> \o SubSeq(digitsOf(phone), 1, 3) \o <<")", " ">>
              \o SubSeq(digitsOf(phone), 4, 6) \o <<"-">>
              \o SubSeq(digitsOf(phone), 7, Len(digitsOf(phone)))
         ELSE phone

\* formatPhone
formatPhone(phone) ==
    IF ~truthy(phone) THEN <<>>
    ELSE LET cleaned == digitsOf(phone)
         IN  IF Len(cleaned) = 10
             THEN <<"(">> \o SubSeq(cleaned, 1, 3) \o <<")", " ">>
                  \o SubSeq(cleaned, 4, 6) \o <<"-">> \o SubSeq(cleaned, 7, 10)
             ELSE phone

\* variant: only contact.Name is looked up
getNameCapitalOnly(contact) == firstTruthy(contact, <<K_Name>>, UnknownContact)

getName(contact) ==
    firstTruthy(contact,
        <<K_Name, K_name, K_Company_name, K_Company_sp_name, K_company>>,
        UnknownContact)

\* variant: contact.Company is looked up first
getCompanyReordered(contact) ==
    firstTruthy(contact,
        <<K_Company, K_Company_name, K_Company_sp_name, K_company, K_organisation>>,
        <<>>)

getCompany(contact) ==
    firstTruthy(contact,
        <<K_Company_name, K_Company_sp_name, K_company, K_organisation, K_Company>>,
        <<>>)

\* variant: only the lower-case property is looked up
getEmailLowerOnly(contact) == firstTruthy(contact, <<K_email>>, <<>>)

getEmail(contact) == firstTruthy(contact, <<K_Email, K_email, K_Email_Address>>, <<>>)

getPhone(contact) ==
    formatPhone(firstTruthy(contact, <<K_Phone, K_phone, K_mobile, K_telephone>>, <<>>))

getAddress(contact) ==
    firstTruthy(contact,
        <<K_Street_Address, K_Street_sp_Address, K_address, K_Address>>, <<>>)

getCity(contact) == firstTruthy(contact, <<K_City, K_city>>, <<>>)

getState(contact) == firstTruthy(contact, <<K_State, K_state, K_province>>, <<>>)

getCountry(contact) == firstTruthy(contact, <<K_Country, K_country>>, <<>>)

getBalance(contact) ==
    firstTruthy(contact, <<K_Open_balance, K_Open_sp_balance, K_balance>>, <<>>)

\* formatContact
formatContact(contact) ==
    [id       |-> IF truthy(get(contact, K_id)) THEN get(contact, K_id)
                  ELSE replaceWsEach(getName(contact) \o <<"_">> \o getEmail(contact)),
     name     |-> getName(contact),
     email    |-> getEmail(contact),
     phone    |-> getPhone(contact),
     company  |-> getCompany(contact),
     address  |-> getAddress(contact),
     city     |-> getCity(contact),
     state    |-> getState(contact),
     country  |-> getCountry(contact),
     zip      |-> firstTruthy(contact, <<K_Zip, K_zip, K_postal_code>>, <<>>),
     balance  |-> getBalance(contact),
     original |-> contact]

\* the filter of getContacts:
\*   contact.name !== 'Unknown Contact' || contact.email || contact.phone || contact.company
meaningful(contact) ==
    \/ contact.name # UnknownContact
    \/ truthy(contact.email)
    \/ truthy(contact.phone)
    \/ truthy(contact.company)

\* variant: contacts.map(formatContact) without the filter
formatOnly(contacts) == [i \in 1..Len(contacts) |-> formatContact(contacts[i])]

\* contacts.map(formatContact).filter(...)
formatAndFilter(contacts) ==
    SelectSeq([i \in 1..Len(contacts) |-> formatContact(contacts[i])], meaningful)

-----------------------------------------------------------------------------
(* The texts the remote source, the proxy relay and the cache file can hold *)

\* a line of blanks, as a spreadsheet export leaves it at the end of a feed
BlankLine == Rep(" ", 100) \o <<"\n">>

\* a well-formed feed of more than 100 characters: one contact, one row
\* whose only populated field is the placeholder name, and a blank line
TextGood ==
       <<"N", "a", "m", "e", ",", "E", "m", "a", "i", "l", ",", "N", "o", "t", "e", "s", "\n">>
    \o <<"A", "n", "n", ",", "a", "@", "x", ".", "i", "o", ",", "\n">>
    \o <<"U", "n", "k", "n", "o", "w", "n", " ", "C", "o", "n", "t", "a", "c", "t", ",", ",", "n", "\n">>
    \o BlankLine

\* a feed of more than 100 characters whose header names are lower-case
TextLower ==
       <<"n", "a", "m", "e", ",", "e", "m", "a", "i", "l", ",", "n", "o", "t", "e", "s", "\n">>
    \o <<"b", "o", "b", ",", "b", "@", "x", ".", "i", "o", ",", "\n">>
    \o BlankLine

\* the body of an error page
TextError == <<"N", "o", "t", " ", "F", "o", "u", "n", "d">>

\* what a download of TextGood leaves in the file when it breaks off
TextPartial == SubSeq(TextGood, 1, 24)

\* an error page served with status 200: one line of more than 100 characters
TextPage ==
    <<"<", "h", "1", ">">> \o TextError \o <<"<", "/", "h", "1", ">">> \o Rep(" ", 100)

Bodies == {"good", "lower", "error"}

Text(doc) ==
    CASE doc = "good"    -> TextGood
      [] doc = "lower"   -> TextLower
      [] doc = "error"   -> TextError
      [] doc = "partial" -> TextPartial
      [] doc = "page"    -> TextPage


-----------------------------------------------------------------------------
(* Program constants *)

\* const CACHE_DURATION = 5 * 60 * 1000
CACHE_DURATION == 5 * 60 * 1000

\* if (cacheAge < 600000)
CACHE_FRESH_MS == 600000

\* const maxAttempts = 3
maxAttempts == 3

\* if (csvText.length < 100)
MIN_CSV_LENGTH == 100

\* config.js: the connection and retry settings, the cache timeout and the
\* proxy, as shipped
config ==
    [maxRetries        |-> 3,
     retryDelay        |-> 2000,
     connectionTimeout |-> 15000,
     cacheTimeout      |-> 300000,
     corsProxy         |-> "https://api.allorigins.win/get?url="]

\* const proxyUrl = `https://api.allorigins.win/get?url=${...}`: the relay
\* the proxy stage of getContacts uses
proxyUrlPrefix == "https://api.allorigins.win/get?url="

\* the time one tick of the clock stands for, in milliseconds
TickMs == 300000

-----------------------------------------------------------------------------
(* State *)

VARIABLES
    clock,           \* Date.now(), in milliseconds since the start
    started,         \* getContacts calls started since the process started
    cachedContacts,  \* csvService: the cached list, or Null
    lastFetchTime,   \* csvService: the timestamp stored with it
    useLocalCSV,     \* config.useLocalCSV
    cacheFile,       \* contacts_cache.csv: the document it holds, or "absent"
    cacheInfo,       \* contacts_cache_info.json: a record, or Null
    clearing,        \* clearCache: "idle", or "file_deleted" between its deletes
    scenario,        \* the calls that may overlap, what the downloader can do, and
                     \* whether the requests of the calls are counted
    pc,              \* per call: where the call stands
    forceRefresh,    \* per call: the argument of getContacts
    now,             \* per call: const now = Date.now()
    localMode,       \* per call: config.useLocalCSV as read by the call
    attempt,         \* per call: the attempt number of fetchCSVFromURL
    text,            \* per call: the CSV text held across an await
    result,          \* per call: the list the call returned, or Null
    via,             \* per call: the return statement taken
    attempted,       \* per call: the ladder stages started, in order
    failed,          \* per call: the ladder stages that ended in an error
    work,            \* per call: the kinds of work done: "fetch", "store", "parse"
    store,           \* per call: what downloadAndCacheCSV observed and did
    requests         \* per call: the network requests made, by stage (where counted)

\* one call of fetchCSVFromURL(url), with its timers
VARIABLES
    fetchPc,         \* "idle", the await it stands at, "resolved" or "rejected"
    fetchAttempt,    \* the parameter attempt of the running invocation
    fetchClock,      \* milliseconds since the call
    timers,          \* the setTimeout(() => controller.abort(), 15000) timers pending
    fetchLog,        \* what the invocations logged: attempts and their failures
    backoff,         \* the retry delays waited for, in order
    fetched          \* the outcome: the text handed to the parser, the error thrown

\* one call of parseCSVWithFallbacks(parseText)
VARIABLES
    parseText,       \* the argument csvText
    parsePc,         \* "idle", "loop", "returned" or "thrown"
    strategy,        \* the index of the strategy the loop stands at
    outcomes,        \* what each strategy run so far produced
    parsed           \* the value returned

\* contacts.map(formatContact) over one list of raw records
VARIABLES
    rawRecords,      \* the list contacts
    formatted,       \* the list of formatted contacts, or Null
    reformatted      \* the list of the formatted contacts formatted again, or Null

\* ContactApp: the component state loadContacts reads and writes
VARIABLES
    mounted,         \* the effect has run: the first load was started, the interval is set
    loading,         \* useState(true)
    refreshing,      \* useState(false)
    error,           \* useState(null): Null or the message
    appContacts,     \* useState([]): the list contacts of the component
    loads            \* the loadContacts calls: how each was made, and whether it has completed

appVars == <<clock, started, cachedContacts, lastFetchTime, useLocalCSV, cacheFile,
             cacheInfo, clearing, scenario, pc, forceRefresh, now, localMode, attempt, text,
             result, via, attempted, failed, work, store, requests>>

fetchVars == <<fetchPc, fetchAttempt, fetchClock, timers, fetchLog, backoff, fetched>>

parseVars == <<parseText, parsePc, strategy, outcomes, parsed>>

formatVars == <<rawRecords, formatted, reformatted>>

uiVars == <<mounted, loading, refreshing, error, appContacts, loads>>

vars == <<appVars, fetchVars, parseVars, formatVars, uiVars>>

callVars == <<pc, forceRefresh, now, localMode, attempt, text, result, via,
              attempted, failed, work, store, requests>>

\* the getContacts calls that can be in flight at once (a user-initiated load
\* and the auto-refresh timer, say)
Calls == {1, 2}

Null == [null |-> TRUE]

\* the fallback ladder of getContacts in remote mode
Ladder == <<"primary", "cache", "alt", "proxy", "sample">>

\* what a call has observed of the durable cache
NoStore == [infoSeen |-> "none", age |-> 0, download |-> "none", outcome |-> "none",
            fileAtEnd |-> "none", returned |-> "none"]

-----------------------------------------------------------------------------
(* What the network can answer *)

\* a direct fetch: a network error, a timeout (abort), a non-2xx response
\* with an error page, or a 2xx response with one of the bodies
FetchOutcomes ==
    {[kind |-> k, body |-> "error"] : k \in {"neterror", "timeout", "http500"}}
    \cup {[kind |-> "ok", body |-> b] : b \in Bodies}

\* FileSystem.downloadAsync throws before it writes anything
DownloadUnavailable == [kind |-> "throw_untouched", body |-> "error"]

\* FileSystem.downloadAsync: it throws, leaving the file as it was or partly
\* written, or it resolves with a status after writing the response body
DownloadOutcomes ==
    {DownloadUnavailable}
    \cup {[kind |-> k, body |-> "error"] : k \in {"throw_partial", "http500"}}
    \cup {[kind |-> "ok", body |-> b] : b \in Bodies}

\* the proxy relay: as a direct fetch, or a 2xx response whose JSON is
\* malformed or has no contents
ProxyOutcomes ==
    FetchOutcomes
    \cup {[kind |-> k, body |-> "error"] : k \in {"badjson", "nocontents"}}

\* the length, the parse and the list of every document, computed once
LengthTable ==
    [good    |-> length(TextGood),
     lower   |-> length(TextLower),
     error   |-> length(TextError),
     partial |-> length(TextPartial)]

ParseTable ==
    [good    |-> parseCSVWithFallbacks(TextGood),
     lower   |-> parseCSVWithFallbacks(TextLower),
     error   |-> parseCSVWithFallbacks(TextError),
     partial |-> parseCSVWithFallbacks(TextPartial)]

ListTable ==
    [good    |-> formatAndFilter(ParseTable.good.data),
     lower   |-> formatAndFilter(ParseTable.lower.data),
     error   |-> formatAndFilter(ParseTable.error.data),
     partial |-> formatAndFilter(ParseTable.partial.data)]

SampleList == formatAndFilter(loadLocalCSV)

SampleListUnfiltered == [i \in 1..Len(loadLocalCSV) |-> formatContact(loadLocalCSV[i])]

-----------------------------------------------------------------------------
(* getContacts: control flow *)

Set(f, c, v) == [f EXCEPT ![c] = v]

\* no request made by the call
NoRequests == [primary |-> 0, cache |-> 0, alt |-> 0, proxy |-> 0]

\* one more request of the stage made by call c: fetch(...) in fetchCSVFromURL
\* and in the alternate and proxy stages, downloadAsync in the cache stage
Counted(c, stage) ==
    IF scenario.counting
    THEN requests' = [requests EXCEPT ![c][stage] = @ + 1]
    ELSE UNCHANGED requests

\* variant: a snapshot exactly CACHE_DURATION old still counts as young
cacheHitInclusive(force, cached, nowMs, fetchTime) ==
    /\ ~force
    /\ cached # Null
    /\ (nowMs - fetchTime) <= CACHE_DURATION

\* variant: a forced call is served from a young snapshot too
cacheHitIgnoresForce(force, cached, nowMs, fetchTime) ==
    /\ cached # Null
    /\ (nowMs - fetchTime) < CACHE_DURATION

\* if (!forceRefresh && cachedContacts && (now - lastFetchTime) < CACHE_DURATION)
cacheHit(force, cached, nowMs, fetchTime) ==
    /\ ~force
    /\ cached # Null
    /\ (nowMs - fetchTime) < CACHE_DURATION

\* variant: getContacts without its outer try/catch
catchOfNoOuter(stage) ==
    CASE stage = "primary" -> "cache_info"
      [] stage = "cache"   -> "alt"
      [] stage = "alt"     -> "proxy"
      [] stage = "proxy"   -> "local"
      [] stage = "format"  -> "raised"
      [] stage = "catch"   -> "raised"

\* variant: the catch block of the primary fetch goes to the alternative fetch
catchOfSkipsCache(stage) ==
    CASE stage = "primary" -> "alt"
      [] stage = "cache"   -> "alt"
      [] stage = "alt"     -> "proxy"
      [] stage = "proxy"   -> "local"
      [] stage = "format"  -> "catch"
      [] stage = "catch"   -> "raised"

\* where an error thrown by a stage is caught: the nested try/catch blocks of
\* getContacts.  "format" is the code after the ladder, "catch" the outer
\* catch block; an error thrown there leaves getContacts.
catchOf(stage) ==
    CASE stage = "primary" -> "cache_info"
      [] stage = "cache"   -> "alt"
      [] stage = "alt"     -> "proxy"
      [] stage = "proxy"   -> "local"
      [] stage = "format"  -> "catch"
      [] stage = "catch"   -> "raised"

\* the ladder stage a position of a call belongs to
stageOf(p) ==
    CASE p = "primary" -> "primary"
      [] p \in {"cache_info", "cache_readinfo", "cache_fresh", "cache_download",
                "cache_writeinfo", "cache_readnew", "catch_info", "catch_read",
                "cache_parse"} -> "cache"
      [] p = "alt"   -> "alt"
      [] p = "proxy" -> "proxy"
      [] p = "local" -> "sample"
      [] OTHER       -> "none"

\* variant: the list is stored, the timestamp is not
CacheResultsTorn(c, list) ==
    /\ cachedContacts' = list
    /\ lastFetchTime' = lastFetchTime

\* variant: the list is returned without being stored
CacheResultsSkipped(c, list) == UNCHANGED <<cachedContacts, lastFetchTime>>

\* variant: the snapshot is stamped with the time of the write
CacheResultsStampsFinish(c, list) ==
    /\ cachedContacts' = list
    /\ lastFetchTime' = clock

\* cachedContacts = formattedContacts; lastFetchTime = now;
CacheResults(c, list) ==
    /\ cachedContacts' = list
    /\ lastFetchTime' = now[c]

\* variant: the outer catch block returns the sample data whatever is cached
OuterCatchSampleOnly(c) ==
    /\ result' = Set(result, c, [at |-> now[c], items |-> SampleListUnfiltered])
    /\ via' = Set(via, c, "sample_catch")
    /\ pc' = Set(pc, c, "returned")
    /\ UNCHANGED <<cachedContacts, lastFetchTime>>

\* the outer catch block: the previous snapshot if there is one, else the
\* formatted sample data; the snapshot is not written
OuterCatch(c) ==
    /\ IF cachedContacts # Null
       THEN /\ result' = Set(result, c, cachedContacts)
            /\ via' = Set(via, c, "stale")
       ELSE /\ result' = Set(result, c,
                    [at |-> now[c], items |-> SampleListUnfiltered])
            /\ via' = Set(via, c, "sample_catch")
    /\ pc' = Set(pc, c, "returned")
    /\ UNCHANGED <<cachedContacts, lastFetchTime>>

\* a stage produced the contacts of a document or of the sample data: lines
\* 489-501, or the outer catch block when formatting throws
Succeed(c, source, unexpected) ==
    /\ text' = Set(text, c, "none")
    /\ store' = Set(store, c, NoStore)
    /\ UNCHANGED <<attempted, failed, attempt>>
    /\ IF ~unexpected
       THEN LET list == [at    |-> now[c],
                         items |-> IF source = "sample" THEN SampleList
                                   ELSE ListTable[source]]
            IN  /\ CacheResults(c, list)
                /\ result' = Set(result, c, list)
                /\ via' = Set(via, c, "acquired")
                    /\ pc' = Set(pc, c, "returned")
       ELSE IF catchOf("format") = "catch"
            THEN OuterCatch(c)
            ELSE /\ pc' = Set(pc, c, catchOf("format"))
                 /\ UNCHANGED <<cachedContacts, lastFetchTime, result, via>>

\* variant: a stage that threw also drops the snapshot
FailDropsSnapshot(c, stage) ==
    LET to == catchOf(stage)
    IN  /\ failed' = Set(failed, c, failed[c] \cup {stage})
        /\ pc' = Set(pc, c, to)
        /\ attempted' = Set(attempted, c,
                            IF stageOf(to) = "none" THEN attempted[c]
                            ELSE Append(attempted[c], stageOf(to)))
        /\ text' = Set(text, c, "none")
        /\ store' = Set(store, c, NoStore)
        /\ attempt' = Set(attempt, c, 0)
        /\ cachedContacts' = Null
        /\ lastFetchTime' = 0
        /\ UNCHANGED <<result, via>>

\* a stage threw: control passes to the catch block around it
Fail(c, stage) ==
    LET to == catchOf(stage)
    IN  /\ failed' = Set(failed, c, failed[c] \cup {stage})
        /\ pc' = Set(pc, c, to)
        /\ attempted' = Set(attempted, c,
                            IF stageOf(to) = "none" THEN attempted[c]
                            ELSE Append(attempted[c], stageOf(to)))
        /\ text' = Set(text, c, "none")
        /\ store' = Set(store, c, NoStore)
        /\ attempt' = Set(attempt, c, 0)
        /\ UNCHANGED <<cachedContacts, lastFetchTime, result, via>>

\* the outcome of parsing a text obtained by a stage
AfterParse(c, stage, doc, unexpected) ==
    IF ParseTable[doc].ok
    THEN Succeed(c, doc, unexpected)
    ELSE Fail(c, stage)

-----------------------------------------------------------------------------
(* getContacts *)

\* getContacts(force) is called: lines 408-428 up to the first await, with the
\* configuration flag and the snapshot as they stand at the call
Enter(c, force, local, cached, fetchTime) ==
    /\ pc[c] \in {"idle", "returned", "raised"}
    /\ c \in scenario.slots
    /\ \A s \in scenario.slots : s < c => pc[s] \notin {"idle", "returned", "raised"}
    /\ started < MaxCalls
    /\ started' = started + 1
    /\ forceRefresh' = Set(forceRefresh, c, force)
    /\ now' = Set(now, c, clock)
    /\ localMode' = Set(localMode, c, local)
    /\ failed' = Set(failed, c, {})
    /\ work' = Set(work, c, {})
    /\ store' = Set(store, c, NoStore)
    /\ text' = Set(text, c, "none")
    /\ requests' = Set(requests, c, NoRequests)
    /\ IF cacheHit(force, cached, clock, fetchTime)
       THEN /\ pc' = Set(pc, c, "returned")
            /\ result' = Set(result, c, cached)
            /\ via' = Set(via, c, "hit")
            /\ attempted' = Set(attempted, c, <<>>)
            /\ attempt' = Set(attempt, c, 0)
       ELSE /\ result' = Set(result, c, Null)
            /\ via' = Set(via, c, "none")
            /\ IF local
               THEN /\ pc' = Set(pc, c, "local")
                    /\ attempted' = Set(attempted, c, <<"sample">>)
                    /\ attempt' = Set(attempt, c, 0)
               ELSE /\ pc' = Set(pc, c, "primary")
                    /\ attempted' = Set(attempted, c, <<"primary">>)
                    /\ attempt' = Set(attempt, c, 1)
    /\ UNCHANGED <<clock, cacheFile, cacheInfo, clearing, scenario, uiVars, fetchVars, parseVars, formatVars>>

\* variant: the call takes the remote branch whatever the flag
GetContactsRemoteOnly(c, force) ==
    /\ Enter(c, force, FALSE, cachedContacts, lastFetchTime)
    /\ UNCHANGED <<cachedContacts, lastFetchTime, useLocalCSV>>

\* getContacts(forceRefresh), from loadContacts
GetContacts(c, force) ==
    /\ Enter(c, force, useLocalCSV, cachedContacts, lastFetchTime)
    /\ UNCHANGED <<cachedContacts, lastFetchTime, useLocalCSV>>

\* App.js switchToOfflineMode: config.useLocalCSV = true; loadContacts(false, true)
SwitchToOfflineMode(c) ==
    /\ useLocalCSV' = TRUE
    /\ Enter(c, TRUE, TRUE, cachedContacts, lastFetchTime)
    /\ UNCHANGED <<cachedContacts, lastFetchTime>>

\* App.js retryWithDifferentMethod: clearContactsCache(); loadContacts(false, true)
RetryWithDifferentMethod(c) ==
    /\ cachedContacts' = Null
    /\ lastFetchTime' = 0
    /\ Enter(c, TRUE, useLocalCSV, Null, 0)
    /\ UNCHANGED useLocalCSV

\* contacts = await loadLocalCSV(), in local mode or as the last stage
LoadLocal(c) ==
    /\ pc[c] = "local"
    /\ work' = Set(work, c, work[c] \cup {"parse"})
    /\ Succeed(c, "sample", FALSE)
    /\ UNCHANGED <<clock, started, useLocalCSV, cacheFile, cacheInfo, clearing,
                   scenario, requests, uiVars, fetchVars, parseVars, formatVars, forceRefresh, now, localMode>>

\* variant: the third attempt is retried too
PrimaryAttemptOnceMore(c) ==
    /\ pc[c] = "primary"
    /\ Counted(c, "primary")
    /\ \E o \in FetchOutcomes, unexpected \in BOOLEAN :
        IF o.kind = "ok" /\ ~(LengthTable[o.body] < MIN_CSV_LENGTH)
        THEN /\ work' = Set(work, c, work[c] \cup {"fetch", "parse"})
             /\ AfterParse(c, "primary", o.body, unexpected)
        ELSE /\ ~unexpected
             /\ work' = Set(work, c, work[c] \cup {"fetch"})
             /\ IF attempt[c] <= maxAttempts
                THEN /\ attempt' = Set(attempt, c, attempt[c] + 1)
                     /\ UNCHANGED <<pc, attempted, failed, text, store,
                                    cachedContacts, lastFetchTime, result, via>>
                ELSE Fail(c, "primary")
    /\ UNCHANGED <<clock, started, useLocalCSV, cacheFile, cacheInfo, clearing,
                   scenario, uiVars, fetchVars, parseVars, formatVars, forceRefresh, now, localMode>>

\* fetchCSVFromURL: one attempt.  A response that is not ok or too small and
\* a failed request are caught and retried; the promise of
\* parseCSVWithFallbacks is returned without await, so its rejection is not
\* caught by fetchCSVFromURL.
PrimaryAttempt(c) ==
    /\ pc[c] = "primary"
    /\ Counted(c, "primary")
    /\ \E o \in FetchOutcomes, unexpected \in BOOLEAN :
        IF o.kind = "ok" /\ ~(LengthTable[o.body] < MIN_CSV_LENGTH)
        THEN /\ work' = Set(work, c, work[c] \cup {"fetch", "parse"})
             /\ AfterParse(c, "primary", o.body, unexpected)
        ELSE /\ ~unexpected
             /\ work' = Set(work, c, work[c] \cup {"fetch"})
             /\ IF attempt[c] < maxAttempts
                THEN /\ attempt' = Set(attempt, c, attempt[c] + 1)
                     /\ UNCHANGED <<pc, attempted, failed, text, store,
                                    cachedContacts, lastFetchTime, result, via>>
                ELSE Fail(c, "primary")
    /\ UNCHANGED <<clock, started, useLocalCSV, cacheFile, cacheInfo, clearing,
                   scenario, uiVars, fetchVars, parseVars, formatVars, forceRefresh, now, localMode>>

\* the fetch with alternative headers
AltFetch(c) ==
    /\ pc[c] = "alt"
    /\ Counted(c, "alt")
    /\ \E o \in FetchOutcomes, unexpected \in BOOLEAN :
        IF o.kind = "ok"
        THEN /\ work' = Set(work, c, work[c] \cup {"fetch", "parse"})
             /\ AfterParse(c, "alt", o.body, unexpected)
        ELSE /\ ~unexpected
             /\ work' = Set(work, c, work[c] \cup {"fetch"})
             /\ Fail(c, "alt")
    /\ UNCHANGED <<clock, started, useLocalCSV, cacheFile, cacheInfo, clearing,
                   scenario, uiVars, fetchVars, parseVars, formatVars, forceRefresh, now, localMode>>

\* the fetch through the CORS proxy
ProxyFetch(c) ==
    /\ pc[c] = "proxy"
    /\ Counted(c, "proxy")
    /\ \E o \in ProxyOutcomes, unexpected \in BOOLEAN :
        IF o.kind = "ok"
        THEN /\ work' = Set(work, c, work[c] \cup {"fetch", "parse"})
             /\ AfterParse(c, "proxy", o.body, unexpected)
        ELSE /\ ~unexpected
             /\ work' = Set(work, c, work[c] \cup (IF o.kind = "nocontents"
                                                   THEN {"fetch", "parse"}
                                                   ELSE {"fetch"}))
             /\ Fail(c, "proxy")
    /\ UNCHANGED <<clock, started, useLocalCSV, cacheFile, cacheInfo, clearing,
                   scenario, uiVars, fetchVars, parseVars, formatVars, forceRefresh, now, localMode>>

\* App.js loadContacts after await getContacts(forceRefresh): 'connected',
\* then 'no-data' when the list is empty; 'error' in its catch block
connectionStatus(threw, data) ==
    IF threw THEN "error"
    ELSE IF Len(data) = 0 THEN "no-data"
    ELSE "connected"

\* clearContactsCache
ClearContactsCache ==
    /\ cachedContacts' = Null
    /\ lastFetchTime' = 0
    /\ UNCHANGED <<clock, started, useLocalCSV, cacheFile, cacheInfo, clearing,
                   scenario, uiVars, fetchVars, parseVars, formatVars>>
    /\ UNCHANGED callVars

-----------------------------------------------------------------------------
(* cacheService: downloadAndCacheCSV, called by the cache stage, and clearCache *)

\* variant: a sidecar exactly ten minutes old still counts as fresh
isFreshInclusive(cacheAge) == cacheAge <= CACHE_FRESH_MS

\* if (cacheAge < 600000)
isFresh(cacheAge) == cacheAge < CACHE_FRESH_MS

\* variant: the catch block rethrows whatever is on disk
servesNothing(file) == FALSE

\* the catch block: if (cacheFile.exists), the payload is served however old
servesExpired(file) == file # "absent"

\* what is left unchanged by every step of downloadAndCacheCSV
StoreFrame ==
    UNCHANGED <<clock, started, useLocalCSV, clearing, scenario, uiVars, fetchVars, parseVars, formatVars, forceRefresh, now, localMode,
                cachedContacts, lastFetchTime, result, via>>

\* a step of downloadAndCacheCSV that stays inside the function
StoreStep(c, to) ==
    /\ pc' = Set(pc, c, to)
    /\ UNCHANGED <<attempted, failed, attempt>>

\* downloadAndCacheCSV returns the text of the cache file
StoreReturn(c) ==
    /\ text' = Set(text, c, cacheFile)
    /\ store' = Set(store, c, [store[c] EXCEPT !.outcome = "returned",
                                               !.returned = cacheFile,
                                               !.fileAtEnd = cacheFile])
    /\ StoreStep(c, "cache_parse")

\* downloadAndCacheCSV throws out of its catch block
StoreRaise(c) ==
    /\ store' = Set(store, c, [store[c] EXCEPT !.outcome = "raised",
                                               !.fileAtEnd = cacheFile])
    /\ failed' = Set(failed, c, failed[c] \cup {"cache"})
    /\ pc' = Set(pc, c, catchOf("cache"))
    /\ attempted' = Set(attempted, c, Append(attempted[c], stageOf(catchOf("cache"))))
    /\ text' = Set(text, c, "none")
    /\ attempt' = attempt

\* const cacheInfo = await FileSystem.getInfoAsync(cacheInfoUri)
CacheGetInfo(c) ==
    /\ pc[c] = "cache_info"
    /\ work' = Set(work, c, work[c] \cup {"store"})
    /\ IF cacheInfo # Null
       THEN /\ StoreStep(c, "cache_readinfo")
            /\ store' = store
       ELSE /\ StoreStep(c, "cache_download")
            /\ store' = Set(store, c, [store[c] EXCEPT !.infoSeen = "absent"])
    /\ UNCHANGED <<text, cacheFile, cacheInfo>>
    /\ UNCHANGED requests
    /\ StoreFrame

\* the sidecar is read and its age compared; a sidecar deleted since
\* getInfoAsync makes the read throw
CacheReadInfo(c) ==
    /\ pc[c] = "cache_readinfo"
    /\ work' = Set(work, c, work[c] \cup {"store"})
    /\ IF cacheInfo = Null
       THEN /\ StoreStep(c, "catch_info")
            /\ store' = Set(store, c, [store[c] EXCEPT !.infoSeen = "unreadable"])
       ELSE LET cacheAge == clock - cacheInfo.timestamp
            IN  /\ store' = Set(store, c, [store[c] EXCEPT !.infoSeen = "read",
                                                           !.age = cacheAge])
                /\ IF isFresh(cacheAge)
                   THEN StoreStep(c, "cache_fresh")
                   ELSE StoreStep(c, "cache_download")
    /\ UNCHANGED <<text, cacheFile, cacheInfo>>
    /\ UNCHANGED requests
    /\ StoreFrame

\* variant: a payload that cannot be read is downloaded again
CacheReadFreshRedownloads(c) ==
    /\ pc[c] = "cache_fresh"
    /\ work' = Set(work, c, work[c] \cup {"store"})
    /\ IF cacheFile = "absent"
       THEN /\ StoreStep(c, "cache_download")
            /\ UNCHANGED <<text, store>>
       ELSE StoreReturn(c)
    /\ UNCHANGED <<cacheFile, cacheInfo>>
    /\ UNCHANGED requests
    /\ StoreFrame

\* the payload is read because the sidecar is fresh
CacheReadFresh(c) ==
    /\ pc[c] = "cache_fresh"
    /\ work' = Set(work, c, work[c] \cup {"store"})
    /\ IF cacheFile = "absent"
       THEN /\ StoreStep(c, "catch_info")
            /\ UNCHANGED <<text, store>>
       ELSE StoreReturn(c)
    /\ UNCHANGED <<cacheFile, cacheInfo>>
    /\ UNCHANGED requests
    /\ StoreFrame

\* FileSystem.downloadAsync(config.csvUrl, cacheFileUri) and the status test
CacheDownload(c) ==
    /\ pc[c] = "cache_download"
    /\ work' = Set(work, c, work[c] \cup {"fetch", "store"})
    /\ \E o \in scenario.downloads :
        /\ cacheFile' = CASE o.kind = "throw_untouched" -> cacheFile
                          [] o.kind = "throw_partial"   -> "partial"
                          [] OTHER                      -> o.body
        /\ store' = Set(store, c, [store[c] EXCEPT !.download =
                                      IF o.kind = "ok" THEN "ok" ELSE "failed"])
        /\ text' = Set(text, c, IF o.kind = "ok" THEN o.body ELSE "none")
        /\ StoreStep(c, IF o.kind = "ok" THEN "cache_writeinfo" ELSE "catch_info")
    /\ UNCHANGED cacheInfo
    /\ Counted(c, "cache")
    /\ StoreFrame

\* FileSystem.writeAsStringAsync(cacheInfoUri, JSON.stringify(cacheInfo)):
\* the timestamp of now and the size the response declared
CacheWriteInfo(c) ==
    /\ pc[c] = "cache_writeinfo"
    /\ work' = Set(work, c, work[c] \cup {"store"})
    /\ cacheInfo' = [timestamp |-> clock, size |-> LengthTable[text[c]]]
    /\ text' = Set(text, c, "none")
    /\ StoreStep(c, "cache_readnew")
    /\ UNCHANGED <<cacheFile, store>>
    /\ UNCHANGED requests
    /\ StoreFrame

\* the downloaded file is read back and returned
CacheReadNew(c) ==
    /\ pc[c] = "cache_readnew"
    /\ work' = Set(work, c, work[c] \cup {"store"})
    /\ IF cacheFile = "absent"
       THEN /\ StoreStep(c, "catch_info")
            /\ UNCHANGED <<text, store>>
       ELSE StoreReturn(c)
    /\ UNCHANGED <<cacheFile, cacheInfo>>
    /\ UNCHANGED requests
    /\ StoreFrame

\* the catch block: const cacheFile = await FileSystem.getInfoAsync(cacheFileUri)
CacheCatchInfo(c) ==
    /\ pc[c] = "catch_info"
    /\ work' = Set(work, c, work[c] \cup {"store"})
    /\ IF servesExpired(cacheFile)
       THEN /\ StoreStep(c, "catch_read")
            /\ UNCHANGED <<text, store>>
       ELSE StoreRaise(c)
    /\ UNCHANGED <<cacheFile, cacheInfo>>
    /\ UNCHANGED requests
    /\ StoreFrame

\* the catch block: return await FileSystem.readAsStringAsync(cacheFileUri)
CacheCatchRead(c) ==
    /\ pc[c] = "catch_read"
    /\ work' = Set(work, c, work[c] \cup {"store"})
    /\ IF cacheFile = "absent"
       THEN StoreRaise(c)
       ELSE StoreReturn(c)
    /\ UNCHANGED <<cacheFile, cacheInfo>>
    /\ UNCHANGED requests
    /\ StoreFrame

\* contacts = await parseCSVWithFallbacks(csvText), after downloadAndCacheCSV
CacheParse(c) ==
    /\ pc[c] = "cache_parse"
    /\ work' = Set(work, c, work[c] \cup {"parse"})
    /\ \E unexpected \in BOOLEAN : AfterParse(c, "cache", text[c], unexpected)
    /\ UNCHANGED <<clock, started, useLocalCSV, cacheFile, cacheInfo, clearing,
                   scenario, requests, uiVars, fetchVars, parseVars, formatVars, forceRefresh, now, localMode>>

\* clearCache: await FileSystem.deleteAsync(cacheFileUri, { idempotent: true })
ClearCacheFile ==
    /\ clearing = "idle"
    /\ cacheFile' = "absent"
    /\ clearing' = "file_deleted"
    /\ UNCHANGED <<clock, started, cachedContacts, lastFetchTime, useLocalCSV,
                   cacheInfo, scenario, uiVars, fetchVars, parseVars, formatVars>>
    /\ UNCHANGED callVars

\* clearCache: await FileSystem.deleteAsync(cacheInfoUri, { idempotent: true })
ClearCacheInfo ==
    /\ clearing = "file_deleted"
    /\ cacheInfo' = Null
    /\ clearing' = "idle"
    /\ UNCHANGED <<clock, started, cachedContacts, lastFetchTime, useLocalCSV,
                   cacheFile, scenario, uiVars, fetchVars, parseVars, formatVars>>
    /\ UNCHANGED callVars

-----------------------------------------------------------------------------
(* fetchCSVFromURL, one call on its own: attempts, timers and delays *)

\* setTimeout(() => controller.abort(), 15000)
TIMEOUT_MS == 15000

\* const retryDelay = attempt * 1000
RETRY_BASE_MS == 1000

\* the time a quick answer of the network takes, in milliseconds
FastMs == 100
\* the time a slow transfer of a response body takes, in milliseconds
SlowMs == 20000

\* variant: the same delay before every retry
retryDelayFlat(k) == RETRY_BASE_MS

\* const retryDelay = attempt * 1000
retryDelay(k) == k * RETRY_BASE_MS

\* variant: the last attempt is retried too
mayRetryOnceMore(k) == k <= maxAttempts

\* if (attempt < maxAttempts)
mayRetry(k) == k < maxAttempts

\* variant: no test of the length
tooSmallNever(len) == FALSE

\* if (csvText.length < 100)
tooSmall(len) == len < MIN_CSV_LENGTH

\* what a request of fetchCSVFromURL can be answered with: as any direct
\* fetch, or with an error page under status 200
FetchResponses == FetchOutcomes \cup {[kind |-> "ok", body |-> "page"]}

\* csvText.length of a response body
lengthOf(body) == IF body = "page" THEN length(TextPage) ELSE LengthTable[body]

\* whether parseCSVWithFallbacks(csvText) resolves for a response body
parses(body) ==
    IF body = "page" THEN parseCSVWithFallbacks(TextPage).ok ELSE ParseTable[body].ok

\* nothing fetched yet: no response, no text handed to the parser, no error
NoFetch == [status |-> 0, body |-> "none", text |-> "none", error |-> "none",
            cause |-> "none"]

\* the timers that have not fired by time t
Pending(ts, t) == {x \in ts : x.due > t}

\* console.log(`Fetching CSV from: ... (Attempt k/3)`) and
\* console.error(`Attempt k failed:`, error)
Logged(k, event, cause) == [attempt |-> k, event |-> event, cause |-> cause]

\* the attempts the log shows as started
Requests(log) == {i \in 1..Len(log) : log[i].event = "fetching"}

\* the failures the log shows
Failures(log) == {i \in 1..Len(log) : log[i].event = "failed"}

\* an invocation fetchCSVFromURL(url, k) at time t, up to its await fetch(...):
\* it logs the attempt, arms the abort timer and sends the request
Begin(k, t, ts, log) ==
    /\ fetchPc' = "fetch"
    /\ fetchAttempt' = k
    /\ fetchClock' = t
    /\ fetchLog' = Append(log, Logged(k, "fetching", "none"))
    /\ timers' = ts \cup {[attempt |-> k, due |-> t + TIMEOUT_MS]}

\* the catch block of invocation k at time t: it logs the failure, and either
\* awaits the retry delay or throws the terminal error with error.message
Catch(k, t, ts, cause) ==
    /\ fetchAttempt' = k
    /\ fetchClock' = t
    /\ timers' = ts
    /\ fetchLog' = Append(fetchLog, Logged(k, "failed", cause))
    /\ IF mayRetry(k)
       THEN /\ fetchPc' = "delay"
            /\ fetched' = NoFetch
       ELSE /\ fetchPc' = "rejected"
            /\ fetched' = [NoFetch EXCEPT !.error = "terminal", !.cause = cause]
    /\ UNCHANGED backoff

\* fetchCSVFromURL(url): attempt = 1
FetchCSVFromURL ==
    /\ fetchPc = "idle"
    /\ Begin(1, fetchClock, timers, fetchLog)
    /\ UNCHANGED <<backoff, fetched>>
    /\ UNCHANGED <<appVars, uiVars, parseVars, formatVars>>

\* await fetch(url, {signal}) settles: a response arrives and the timer is
\* cleared, or the request fails and the timer stays armed, or the timer
\* fires and aborts the request
FetchSettles ==
    /\ fetchPc = "fetch"
    /\ \E o \in FetchResponses :
        LET own == CHOOSE x \in timers : x.attempt = fetchAttempt
            t   == IF o.kind = "timeout" THEN own.due ELSE fetchClock + FastMs
        IN  CASE o.kind = "ok" ->
                   /\ fetchPc' = "text"
                   /\ fetchClock' = t
                   /\ timers' = Pending(timers, t) \ {own}
                   /\ fetched' = [NoFetch EXCEPT !.status = 200, !.body = o.body]
                   /\ UNCHANGED <<fetchAttempt, fetchLog, backoff>>
              [] o.kind = "http500" ->
                   Catch(fetchAttempt, t, Pending(timers, t) \ {own}, "http500")
              [] o.kind = "neterror" ->
                   Catch(fetchAttempt, t, Pending(timers, t), "network")
              [] o.kind = "timeout" ->
                   Catch(fetchAttempt, t, Pending(timers, t), "abort")
    /\ UNCHANGED <<appVars, uiVars, parseVars, formatVars>>

\* variant: return await parseCSVWithFallbacks(csvText), so that a rejection
\* of the parser is caught like a failed request
TextSettlesAwaited ==
    /\ fetchPc = "text"
    /\ \E lat \in {FastMs, SlowMs}, complete \in BOOLEAN :
        LET t == fetchClock + lat
        IN  IF ~complete
            THEN Catch(fetchAttempt, t, Pending(timers, t), "network")
            ELSE IF tooSmall(lengthOf(fetched.body))
            THEN Catch(fetchAttempt, t, Pending(timers, t), "small")
            ELSE IF ~parses(fetched.body)
            THEN Catch(fetchAttempt, t, Pending(timers, t), "parse")
            ELSE /\ fetchClock' = t
                 /\ timers' = Pending(timers, t)
                 /\ fetched' = [fetched EXCEPT !.text = fetched.body]
                 /\ fetchPc' = "resolved"
                 /\ UNCHANGED <<fetchAttempt, fetchLog, backoff>>
    /\ UNCHANGED <<appVars, uiVars, parseVars, formatVars>>

\* await response.text() settles, quickly or slowly: the transfer breaks off,
\* or the text is too small, or it is handed to parseCSVWithFallbacks, whose
\* promise is returned as it is
TextSettles ==
    /\ fetchPc = "text"
    /\ \E lat \in {FastMs, SlowMs}, complete \in BOOLEAN :
        LET t == fetchClock + lat
        IN  IF ~complete
            THEN Catch(fetchAttempt, t, Pending(timers, t), "network")
            ELSE IF tooSmall(lengthOf(fetched.body))
            THEN Catch(fetchAttempt, t, Pending(timers, t), "small")
            ELSE /\ fetchClock' = t
                 /\ timers' = Pending(timers, t)
                 /\ fetched' = [fetched EXCEPT
                        !.text  = fetched.body,
                        !.error = IF parses(fetched.body)
                                  THEN "none" ELSE "parse"]
                 /\ fetchPc' = IF parses(fetched.body)
                               THEN "resolved" ELSE "rejected"
                 /\ UNCHANGED <<fetchAttempt, fetchLog, backoff>>
    /\ UNCHANGED <<appVars, uiVars, parseVars, formatVars>>

\* await new Promise(resolve => setTimeout(resolve, retryDelay)) is over:
\* return fetchCSVFromURL(url, attempt + 1)
RetryAfterDelay ==
    /\ fetchPc = "delay"
    /\ backoff' = Append(backoff, retryDelay(fetchAttempt))
    /\ Begin(fetchAttempt + 1, fetchClock + retryDelay(fetchAttempt),
             Pending(timers, fetchClock + retryDelay(fetchAttempt)), fetchLog)
    /\ UNCHANGED fetched
    /\ UNCHANGED <<appVars, uiVars, parseVars, formatVars>>

\* a timer that was left armed fires after the call has settled
AbortTimerFires ==
    /\ fetchPc \in {"resolved", "rejected"}
    /\ \E x \in timers :
        /\ \A y \in timers : x.due <= y.due
        /\ fetchClock' = x.due
        /\ timers' = timers \ {x}
    /\ UNCHANGED <<fetchPc, fetchAttempt, fetchLog, backoff, fetched>>
    /\ UNCHANGED <<appVars, uiVars, parseVars, formatVars>>

\* no call of fetchCSVFromURL has been made
FetchIdle ==
    /\ fetchPc = "idle"
    /\ fetchAttempt = 0
    /\ fetchClock = 0
    /\ timers = {}
    /\ fetchLog = <<>>
    /\ backoff = <<>>
    /\ fetched = NoFetch

\* the sum of the delays waited for
RECURSIVE Sum(_)
Sum(seq) == IF seq = <<>> THEN 0 ELSE Head(seq) + Sum(Tail(seq))

-----------------------------------------------------------------------------
(* parseCSVWithFallbacks, one call on its own, over small texts *)

\* the number of lines after the header line
MaxRows == 2

\* header lines: capitalised names, lower-case names, a single column, a
\* quoted name with a blank in it, a quoted name with a comma in it
HeaderNameEmail == <<"N", "a", "m", "e", ",", "E", "m", "a", "i", "l">>
HeaderLower == <<"n", "a", "m", "e", ",", "e", "m", "a", "i", "l">>
HeaderName == <<"N", "a", "m", "e">>
HeaderQuoted == <<"\"", "C", "o", "m", "p", "a", "n", "y", " ", "n", "a", "m", "e", "\"", ",", "P", "h", "o", "n", "e">>

HeaderComma == <<"\"", "N", "a", "m", "e", ",", " ", "x", "\"", ",", "E", "m", "a", "i", "l">>

HeaderLines == {HeaderNameEmail, HeaderLower, HeaderName, HeaderQuoted, HeaderComma}

\* lines: a contact, blanks between commas, a quoted comma, a row without
\* its first field, a row of one field, a row with a quote that is not closed
LineAnn == <<"A", "n", "n", ",", "a", "@", "x", ".", "i", "o">>
LineBlanks == <<" ", ",", " ">>
LineQuoted == <<"\"", "B", "o", ",", " ", "J", "r", "\"", ",", "b", "@", "x", ".", "i", "o">>
LineNoName == <<",", "x">>
LineOne == <<"C", "y">>

LineUnclosed == <<"B", "o", ",", "\"", "b", "@", "x", ".", "i", "o">>

Lines == {LineAnn, LineBlanks, LineQuoted, LineNoName, LineOne, LineUnclosed}

\* lines.join('\n')
RECURSIVE joinLines(_)
joinLines(lines) ==
    IF Len(lines) = 1 THEN lines[1]
    ELSE lines[1] \o <<"\n">> \o joinLines(Tail(lines))

\* a header line and one contact, each line ended by a line feed
TextJohnDoe ==
    HeaderNameEmail \o <<"\n">>
    \o <<"J", "o", "h", "n", " ", "D", "o", "e", ",",
         "j", "o", "h", "n", "@", "x", ".", "c", "o", "m">> \o <<"\n">>

\* the texts given to the parser: a header line and up to MaxRows lines, and
\* the text with the one contact
ParseInputs ==
    {joinLines(<<h>> \o rows) :
        h \in HeaderLines, rows \in UNION {[1..n -> Lines] : n \in 0..MaxRows}}
    \cup {TextJohnDoe}

\* variant: the manual parser is tried first
strategiesManualFirst == <<"Manual", "Enhanced Standard", "Relaxed">>

\* const strategies = [...]: the names, in the order of the array
strategies == <<"Enhanced Standard", "Relaxed", "Manual">>

\* what a strategy produced: rows are the objects it built, data the ones it
\* kept, ok is FALSE when it threw or rejected, errors is results.errors.length,
\* headers the header names of the manual parser
Outcome(name, ok, rows, data, errors, headers) ==
    [name |-> name, ok |-> ok, rows |-> rows, data |-> data, errors |-> errors,
     headers |-> headers]

\* a Papa strategy: results.data filtered by the complete callback
papaOutcome(name, results) ==
    Outcome(name, papaResolve(SelectSeq(results.data, validContact)).ok, results.data,
            SelectSeq(results.data, validContact), results.errors, <<>>)

\* the Manual strategy: the objects built from the lines, and those kept
manualOutcome(lines) ==
    Outcome("Manual", manualLines(lines).ok,
            IF Len(lines) < 2 THEN <<>>
            ELSE manualObjects(manualHeaders(trim(lines[1])), manualNonBlank(lines)),
            manualLines(lines).data,
            0,
            IF Len(lines) < 2 THEN <<>> ELSE manualHeaders(trim(lines[1])))

\* the body of the loop for one strategy
runStrategy(name, input) ==
    CASE name = "Enhanced Standard" -> papaOutcome(name, PapaParse(input, TRUE))
      [] name = "Relaxed"           -> papaOutcome(name, PapaParse(input, FALSE))
      [] name = "Manual"            -> manualOutcome(split(input, "\n"))

\* return result, or continue with the next strategy, or
\* throw new Error('All parsing strategies failed') after the last
AfterStrategy(o) ==
    /\ outcomes' = Append(outcomes, o)
    /\ IF o.ok
       THEN /\ parsePc' = "returned"
            /\ parsed' = o.data
            /\ UNCHANGED strategy
       ELSE /\ parsePc' = IF strategy < Len(strategies) THEN "loop" ELSE "thrown"
            /\ strategy' = strategy + 1
            /\ UNCHANGED parsed

\* parseCSVWithFallbacks(parseText) is called
ParseCSVWithFallbacks ==
    /\ parsePc = "idle"
    /\ parsePc' = "loop"
    /\ strategy' = 1
    /\ UNCHANGED <<parseText, outcomes, parsed>>
    /\ UNCHANGED <<appVars, uiVars, fetchVars, formatVars>>

\* for (const strategy of strategies) { try { ... } catch { continue } }:
\* one turn of the loop
TryStrategy ==
    /\ parsePc = "loop"
    /\ AfterStrategy(runStrategy(strategies[strategy], parseText))
    /\ UNCHANGED parseText
    /\ UNCHANGED <<appVars, uiVars, fetchVars, formatVars>>

\* no call of parseCSVWithFallbacks has been made
ParseIdle ==
    /\ parsePc = "idle"
    /\ strategy = 0
    /\ outcomes = <<>>
    /\ parsed = <<>>

-----------------------------------------------------------------------------
(* exportService: the CSV text written for a contact list, and its way back *)

\* columns: ['name', 'company', 'email', 'phone', 'address', 'city', 'state',
\*           'country', 'zip', 'balance']
exportColumns ==
    <<[key |-> "name",    header |-> K_name],
      [key |-> "company", header |-> K_company],
      [key |-> "email",   header |-> K_email],
      [key |-> "phone",   header |-> K_phone],
      [key |-> "address", header |-> K_address],
      [key |-> "city",    header |-> K_city],
      [key |-> "state",   header |-> K_state],
      [key |-> "country", header |-> K_country],
      [key |-> "zip",     header |-> K_zip],
      [key |-> "balance", header |-> K_balance]>>

\* Papa.unparse quotes a value that holds a comma, a quote or a line break,
\* or that starts or ends with a blank
needsQuotes(str) ==
    \/ \E i \in 1..Len(str) : str[i] \in {",", "\"", "\n", "\r"}
    \/ str # <<>> /\ (str[1] = " " \/ str[Len(str)] = " ")

\* str.replace(/"/g, '""')
RECURSIVE escapeQuotes(_)
escapeQuotes(str) ==
    IF str = <<>> THEN <<>>
    ELSE IF Head(str) = "\"" THEN <<"\"", "\"">> \o escapeQuotes(Tail(str))
    ELSE <<Head(str)>> \o escapeQuotes(Tail(str))

\* one value as Papa.unparse writes it
safe(str) ==
    IF needsQuotes(str) THEN <<"\"">> \o escapeQuotes(str) \o <<"\"">> ELSE str

\* parts.join(sep)
RECURSIVE join(_, _)
join(parts, sep) ==
    IF parts = <<>> THEN <<>>
    ELSE IF Len(parts) = 1 THEN parts[1]
    ELSE parts[1] \o sep \o join(Tail(parts), sep)

\* Papa.unparse(contacts, {header: true, columns}): the header line and one
\* line per contact, joined by carriage return and line feed; an empty list
\* gives the empty text
PapaUnparse(contacts, columns) ==
    IF contacts = <<>> THEN <<>>
    ELSE join(<<join([j \in 1..Len(columns) |-> safe(columns[j].header)], <<",">>)>>
              \o [i \in 1..Len(contacts) |->
                    join([j \in 1..Len(columns) |-> safe(contacts[i][columns[j].key])],
                         <<",">>)],
              <<"\r", "\n">>)

\* the exported text of a contact list
exportContacts(contacts) == PapaUnparse(contacts, exportColumns)

\* the contacts a parse result gives after the Field Normalizer and the
\* filter of getContacts; none when the parser threw
ingested(parse) == IF parse.ok THEN formatAndFilter(parse.data) ELSE <<>>

\* an exported text taken in again through the parser and the normalizer
reIngest(exported) == ingested(parseCSVWithFallbacks(exported))

\* the fields of a contact apart from _original
CanonicalFields ==
    {"id", "name", "email", "phone", "company", "address", "city", "state",
     "country", "zip", "balance"}

-----------------------------------------------------------------------------
(* contacts.map(formatContact), on its own, over small raw records *)

\* the number of digits of the longest phone value
MaxPhoneLen == 11

\* a populated value for the property k: the name of the property, and for
\* Name a value with two blanks in a row
valueFor(k) == IF k = K_Name THEN <<"A", " ", " ", "B">> ELSE k

\* the objects over some properties: each property is absent, present with
\* the empty string, or present with its value
RecordsOver(keys) ==
    UNION {{[k \in present |-> IF k \in empty THEN <<>> ELSE valueFor(k)] :
               empty \in SUBSET present} : present \in SUBSET keys}

\* phone values written as digits only
DigitStrings == UNION {[1..n -> {"4", "7"}] : n \in 0..MaxPhoneLen}

\* a phone value written with a country sign, a blank and dashes
punctuated(digits) ==
    <<"+">> \o SubSeq(digits, 1, 3) \o <<" ">> \o SubSeq(digits, 4, 6)
            \o <<"-">> \o SubSeq(digits, 7, Len(digits))

\* raw records with a phone value and nothing else: the digits alone, and
\* those of six digits and more punctuated
PhoneRecords ==
    {[k \in {K_Phone} |-> d] : d \in DigitStrings}
    \cup {[k \in {K_Phone} |-> punctuated(d)] : d \in {x \in DigitStrings : Len(x) >= 6}}

\* the raw records given to formatContact: every combination of the
\* properties looked up for name and company, for id, name and email, and for
\* each other field, and the phone values
RawRecords ==
    RecordsOver({K_Name, K_name, K_Company_name, K_Company_sp_name, K_company,
                 K_organisation, K_Company})
    \cup RecordsOver({K_id, K_Name, K_Company_sp_name, K_Email})
    \cup RecordsOver({K_Email, K_email, K_Email_Address})
    \cup RecordsOver({K_Phone, K_phone, K_mobile, K_telephone})
    \cup RecordsOver({K_Street_Address, K_Street_sp_Address, K_address, K_Address})
    \cup RecordsOver({K_City, K_city, K_State, K_state, K_province})
    \cup RecordsOver({K_Country, K_country, K_Zip, K_zip, K_postal_code})
    \cup RecordsOver({K_Open_balance, K_Open_sp_balance, K_balance})
    \cup PhoneRecords

\* contacts.map(formatContact)
MapFormatContact(contacts) ==
    /\ formatted = Null
    /\ formatted' = [items |-> [i \in 1..Len(contacts) |-> formatContact(contacts[i])]]

\* the list rawRecords is formatted
FormatRecords ==
    /\ MapFormatContact(rawRecords)
    /\ UNCHANGED <<rawRecords, reformatted>>
    /\ UNCHANGED <<appVars, uiVars, fetchVars, parseVars>>

\* the list parseCSVWithFallbacks returned is formatted, as getContacts does
FormatParsed ==
    /\ parsePc = "returned"
    /\ MapFormatContact(parsed)
    /\ UNCHANGED <<rawRecords, reformatted>>
    /\ UNCHANGED <<appVars, uiVars, fetchVars, parseVars>>

\* a formatted contact as the object formatContact is given when it is
\* applied to its own result: the properties id to balance under their own
\* names; _original holds an object and is looked up by no getter
asRawRecord(contact) ==
    (K_id :> contact.id) @@ (K_name :> contact.name) @@ (K_email :> contact.email)
    @@ (K_phone :> contact.phone) @@ (K_company :> contact.company)
    @@ (K_address :> contact.address) @@ (K_city :> contact.city)
    @@ (K_state :> contact.state) @@ (K_country :> contact.country)
    @@ (K_zip :> contact.zip) @@ (K_balance :> contact.balance)

\* formatted.map(formatContact): the formatted contacts are formatted again
FormatAgain ==
    /\ formatted # Null
    /\ reformatted = Null
    /\ reformatted' = [items |-> [i \in 1..Len(formatted.items) |->
                                    formatContact(asRawRecord(formatted.items[i]))]]
    /\ UNCHANGED <<rawRecords, formatted>>
    /\ UNCHANGED <<appVars, uiVars, fetchVars, parseVars>>

\* nothing has been formatted
FormatIdle ==
    /\ rawRecords = <<>>
    /\ formatted = Null
    /\ reformatted = Null

-----------------------------------------------------------------------------
(* App.js: the state of ContactApp that loadContacts drives *)

\* the number of loadContacts calls followed
MaxLoads == 4

Loads == 1..MaxLoads

\* setError('No contacts found. Please check the CSV file.')
NoContactsFound == [message |-> "No contacts found. Please check the CSV file."]

\* no call of loadContacts in this place yet
NoLoad == [by |-> "none", silent |-> FALSE, forceRefresh |-> FALSE, state |-> "unused"]

\* the lists getContacts can resolve with (it does not reject)
ContactLists == {ListTable[b] : b \in Bodies} \cup {SampleList}

\* the screen ContactApp renders: if (loading) ... if (error) ... else the list
screen ==
    IF loading THEN "loading"
    ELSE IF error # Null THEN "error"
    ELSE "main"

\* loadContacts(silent, forceRefresh) up to its await getContacts(forceRefresh):
\* a call that is not silent sets loading and clears error
LoadContacts(by, silent, force) ==
    /\ \E l \in Loads :
        /\ loads[l].state = "unused"
        /\ \A k \in Loads : k < l => loads[k].state # "unused"
        /\ loads' = [loads EXCEPT ![l] = [by |-> by, silent |-> silent,
                                          forceRefresh |-> force, state |-> "awaiting"]]
    /\ IF ~silent
       THEN /\ loading' = TRUE
            /\ error' = Null
       ELSE UNCHANGED <<loading, error>>
    /\ UNCHANGED appContacts
    /\ UNCHANGED <<appVars, fetchVars, parseVars, formatVars>>

\* the effect on mount: loadContacts(), and the interval is set
Mount ==
    /\ ~mounted
    /\ mounted' = TRUE
    /\ LoadContacts("mount", FALSE, FALSE)
    /\ UNCHANGED refreshing

\* the interval fires: loadContacts(true)
AutoRefresh ==
    /\ mounted
    /\ LoadContacts("timer", TRUE, FALSE)
    /\ UNCHANGED <<mounted, refreshing>>

\* variant: the button of the error screen calls loadContacts()
TryAgainNotSilent ==
    /\ mounted
    /\ screen = "error"
    /\ LoadContacts("try_again", FALSE, FALSE)
    /\ UNCHANGED <<mounted, refreshing>>

\* the error screen, onPress={loadContacts}: the press event is the first
\* argument, so silent is truthy; forceRefresh keeps its default
TryAgain ==
    /\ mounted
    /\ screen = "error"
    /\ LoadContacts("try_again", TRUE, FALSE)
    /\ UNCHANGED <<mounted, refreshing>>

\* onRefresh, from the list of the main screen: setRefreshing(true); loadContacts()
OnRefresh ==
    /\ mounted
    /\ screen = "main"
    /\ refreshing' = TRUE
    /\ LoadContacts("pull", FALSE, FALSE)
    /\ UNCHANGED mounted

\* variant: the finally block resets loading only
FinallyLoadingOnly ==
    /\ loading' = FALSE
    /\ UNCHANGED refreshing

\* finally { setLoading(false); setRefreshing(false); }
Finally ==
    /\ loading' = FALSE
    /\ refreshing' = FALSE

\* await getContacts(forceRefresh) resolves with a list: the rest of the try
\* block and the finally block
GetContactsResolves(l, list) ==
    /\ loads[l].state = "awaiting"
    /\ loads' = [loads EXCEPT ![l].state = "completed"]
    /\ appContacts' = list
    /\ IF Len(list) = 0
       THEN error' = NoContactsFound
       ELSE UNCHANGED error
    /\ Finally
    /\ UNCHANGED mounted
    /\ UNCHANGED <<appVars, fetchVars, parseVars, formatVars>>

\* useState: loading is true, refreshing false, error null, contacts []
UiIdle ==
    /\ mounted = FALSE
    /\ loading = TRUE
    /\ refreshing = FALSE
    /\ error = Null
    /\ appContacts = <<>>
    /\ loads = [l \in Loads |-> NoLoad]
-----------------------------------------------------------------------------
(* The environment and the specification *)

\* time passes
Tick ==
    /\ clock + TickMs <= MaxTicks * TickMs
    /\ clock' = clock + TickMs
    /\ UNCHANGED <<started, cachedContacts, lastFetchTime, useLocalCSV, cacheFile,
                   cacheInfo, clearing, scenario, uiVars, fetchVars, parseVars, formatVars>>
    /\ UNCHANGED callVars

\* the state of a process that has just started: module-level variables of
\* csvService and config as initialised, no call in flight
Fresh ==
    /\ started = 0
    /\ cachedContacts = Null
    /\ lastFetchTime = 0
    /\ useLocalCSV = FALSE
    /\ clearing = "idle"
    /\ pc = [c \in Calls |-> "idle"]
    /\ forceRefresh = [c \in Calls |-> FALSE]
    /\ now = [c \in Calls |-> 0]
    /\ localMode = [c \in Calls |-> FALSE]
    /\ attempt = [c \in Calls |-> 0]
    /\ text = [c \in Calls |-> "none"]
    /\ result = [c \in Calls |-> Null]
    /\ via = [c \in Calls |-> "none"]
    /\ attempted = [c \in Calls |-> <<>>]
    /\ failed = [c \in Calls |-> {}]
    /\ work = [c \in Calls |-> {}]
    /\ store = [c \in Calls |-> NoStore]
    /\ requests = [c \in Calls |-> NoRequests]

\* the app is killed and started again: memory is lost, the files stay
Restart ==
    /\ \E c \in Calls : pc[c] \notin {"idle", "returned"}
       \/ clearing # "idle"
    /\ started' = started
    /\ cachedContacts' = Null
    /\ lastFetchTime' = 0
    /\ useLocalCSV' = FALSE
    /\ clearing' = "idle"
    /\ pc' = [c \in Calls |-> "idle"]
    /\ forceRefresh' = [c \in Calls |-> FALSE]
    /\ now' = [c \in Calls |-> 0]
    /\ localMode' = [c \in Calls |-> FALSE]
    /\ attempt' = [c \in Calls |-> 0]
    /\ text' = [c \in Calls |-> "none"]
    /\ result' = [c \in Calls |-> Null]
    /\ via' = [c \in Calls |-> "none"]
    /\ attempted' = [c \in Calls |-> <<>>]
    /\ failed' = [c \in Calls |-> {}]
    /\ work' = [c \in Calls |-> {}]
    /\ store' = [c \in Calls |-> NoStore]
    /\ requests' = [c \in Calls |-> NoRequests]
    /\ UNCHANGED <<clock, cacheFile, cacheInfo, scenario, uiVars, fetchVars, parseVars, formatVars>>

\* a fresh install: no cache files
Installed ==
    /\ clock = 0
    /\ cacheFile = "absent"
    /\ cacheInfo = Null
    /\ Fresh

\* one getContacts call at a time, any behaviour of the downloader
Init ==
    /\ scenario = [slots |-> {1}, downloads |-> DownloadOutcomes, counting |-> FALSE]
    /\ Installed
    /\ FetchIdle
    /\ parseText = <<>>
    /\ ParseIdle
    /\ FormatIdle
    /\ UiIdle

\* getContacts calls may overlap, on a device where downloads to the cache
\* directory cannot start
InitConcurrent ==
    /\ scenario = [slots |-> Calls, downloads |-> {DownloadUnavailable}, counting |-> FALSE]
    /\ Installed
    /\ FetchIdle
    /\ parseText = <<>>
    /\ ParseIdle
    /\ FormatIdle
    /\ UiIdle

Next ==
    \/ Tick
    \/ \E c \in Calls, force \in BOOLEAN : GetContacts(c, force)
    \/ \E c \in Calls : SwitchToOfflineMode(c)
    \/ \E c \in Calls : RetryWithDifferentMethod(c)
    \/ \E c \in Calls : LoadLocal(c)
    \/ \E c \in Calls : PrimaryAttempt(c)
    \/ \E c \in Calls : CacheGetInfo(c)
    \/ \E c \in Calls : CacheReadInfo(c)
    \/ \E c \in Calls : CacheReadFresh(c)
    \/ \E c \in Calls : CacheDownload(c)
    \/ \E c \in Calls : CacheWriteInfo(c)
    \/ \E c \in Calls : CacheReadNew(c)
    \/ \E c \in Calls : CacheCatchInfo(c)
    \/ \E c \in Calls : CacheCatchRead(c)
    \/ \E c \in Calls : CacheParse(c)
    \/ \E c \in Calls : AltFetch(c)
    \/ \E c \in Calls : ProxyFetch(c)
    \/ ClearContactsCache
    \/ ClearCacheFile
    \/ ClearCacheInfo
    \/ Restart

Spec == Init /\ [][Next]_vars

\* overlapping calls in one run of the process, the cache files left alone
NextConcurrent ==
    \/ Tick
    \/ \E c \in Calls, force \in BOOLEAN : GetContacts(c, force)
    \/ \E c \in Calls : RetryWithDifferentMethod(c)
    \/ \E c \in Calls : LoadLocal(c)
    \/ \E c \in Calls : PrimaryAttempt(c)
    \/ \E c \in Calls : CacheGetInfo(c)
    \/ \E c \in Calls : CacheDownload(c)
    \/ \E c \in Calls : CacheCatchInfo(c)
    \/ \E c \in Calls : AltFetch(c)
    \/ \E c \in Calls : ProxyFetch(c)
    \/ ClearContactsCache

SpecConcurrent == InitConcurrent /\ [][NextConcurrent]_vars

\* fetchCSVFromURL called once, nothing else going on
InitFetch ==
    /\ scenario = [slots |-> {}, downloads |-> {}, counting |-> FALSE]
    /\ Installed
    /\ FetchIdle
    /\ parseText = <<>>
    /\ ParseIdle
    /\ FormatIdle
    /\ UiIdle

NextFetch ==
    \/ FetchCSVFromURL
    \/ FetchSettles
    \/ TextSettles
    \/ RetryAfterDelay
    \/ AbortTimerFires

SpecFetch == InitFetch /\ [][NextFetch]_vars

\* parseCSVWithFallbacks called once on any of the small texts
InitParse ==
    /\ scenario = [slots |-> {}, downloads |-> {}, counting |-> FALSE]
    /\ Installed
    /\ FetchIdle
    /\ parseText \in ParseInputs
    /\ ParseIdle
    /\ FormatIdle
    /\ UiIdle

NextParse ==
    \/ ParseCSVWithFallbacks
    \/ TryStrategy
    \/ FormatParsed

SpecParse == InitParse /\ [][NextParse]_vars

\* formatContact applied to one raw record
InitFormat ==
    /\ scenario = [slots |-> {}, downloads |-> {}, counting |-> FALSE]
    /\ Installed
    /\ FetchIdle
    /\ parseText = <<>>
    /\ ParseIdle
    /\ rawRecords \in {<<r>> : r \in RawRecords}
    /\ formatted = Null
    /\ reformatted = Null
    /\ UiIdle

NextFormat ==
    \/ FormatRecords
    \/ FormatAgain

SpecFormat == InitFormat /\ [][NextFormat]_vars

\* one getContacts call at a time and nothing else going on, the requests of
\* each call counted; every operation a call waits for settles in the end
InitCall ==
    /\ scenario = [slots |-> {1}, downloads |-> DownloadOutcomes, counting |-> TRUE]
    /\ Installed
    /\ FetchIdle
    /\ parseText = <<>>
    /\ ParseIdle
    /\ FormatIdle
    /\ UiIdle

\* a step of a call in flight: an awaited operation settles
Progress(c) ==
    \/ LoadLocal(c)
    \/ PrimaryAttempt(c)
    \/ CacheGetInfo(c)
    \/ CacheReadInfo(c)
    \/ CacheReadFresh(c)
    \/ CacheDownload(c)
    \/ CacheWriteInfo(c)
    \/ CacheReadNew(c)
    \/ CacheCatchInfo(c)
    \/ CacheCatchRead(c)
    \/ CacheParse(c)
    \/ AltFetch(c)
    \/ ProxyFetch(c)

NextCall ==
    \/ Tick
    \/ \E c \in Calls, force \in BOOLEAN : GetContacts(c, force)
    \/ \E c \in Calls : Progress(c)

SpecCall ==
    /\ InitCall
    /\ [][NextCall]_vars
    /\ \A c \in Calls : WF_vars(Progress(c))

\* the component on its own: the loads it starts and their completions; each
\* getContacts call resolves in the end
InitApp ==
    /\ scenario = [slots |-> {}, downloads |-> {}, counting |-> FALSE]
    /\ Installed
    /\ FetchIdle
    /\ parseText = <<>>
    /\ ParseIdle
    /\ FormatIdle
    /\ UiIdle

NextApp ==
    \/ Mount
    \/ AutoRefresh
    \/ TryAgain
    \/ OnRefresh
    \/ \E l \in Loads, list \in ContactLists : GetContactsResolves(l, list)

SpecApp ==
    /\ InitApp
    /\ [][NextApp]_vars
    /\ \A l \in Loads : WF_vars(\E list \in ContactLists : GetContactsResolves(l, list))

-----------------------------------------------------------------------------
(* Properties of getContacts *)

\* the call in slot c has returned to its caller
Returned(c) == pc[c] = "returned"

\* C1: getContacts never fails.  Whatever the fetches, the durable cache,
\* the parser and the formatting do, and for both values of forceRefresh, no
\* call ends with an error, and a call that has completed holds a list.
C1_NeverFails ==
    \A c \in Calls :
        /\ pc[c] # "raised"
        /\ Returned(c) => /\ result[c] # Null
                          /\ via[c] \in {"hit", "acquired", "stale", "sample_catch"}

\* a call that found every remote stage failing and returned the sample data
C1_Witness ==
    \E c \in Calls :
        /\ Returned(c)
        /\ attempted[c] = Ladder
        /\ failed[c] = {"primary", "cache", "alt", "proxy"}
        /\ result[c] # Null

\* C2: an empty list is returned only as the last resort: a call that
\* returns an empty list has attempted every stage of the ladder down to the
\* sample data, and every stage before the last has failed.
C2_EmptyOnlyAsLastResort ==
    \A c \in Calls :
        (Returned(c) /\ result[c] # Null /\ result[c].items = <<>>)
            => /\ attempted[c] = Ladder
               /\ failed[c] = {"primary", "cache", "alt", "proxy"}

\* C3: in remote mode the ladder is walked in its fixed order: the stages a
\* call has started form an initial part of the ladder, every stage before
\* the latest one has failed, the call is inside the latest one only, and a
\* call that returned what a stage produced started no stage after it.
C3_LadderInOrder ==
    \A c \in Calls :
        (~localMode[c] /\ via[c] # "hit" /\ pc[c] # "idle")
            => LET n == Len(attempted[c])
               IN  /\ n >= 1
                   /\ attempted[c] = SubSeq(Ladder, 1, n)
                   /\ \A k \in 1..(n - 1) : attempted[c][k] \in failed[c]
                   /\ failed[c] \subseteq {attempted[c][k] : k \in 1..n}
                   /\ stageOf(pc[c]) \in {"none", attempted[c][n]}
                   /\ via[c] = "acquired" => attempted[c][n] \notin failed[c]

\* a call that the third stage of the ladder served
C3_Witness ==
    \E c \in Calls :
        /\ Returned(c)
        /\ via[c] = "acquired"
        /\ attempted[c] = <<"primary", "cache", "alt">>
        /\ failed[c] = {"primary", "cache"}

\* getContacts is entered in slot c by this step
Entered(c) ==
    /\ started' = started + 1
    /\ c \in scenario.slots
    /\ pc[c] \in {"idle", "returned", "raised"}
    /\ \A s \in scenario.slots : s < c => pc[s] \notin {"idle", "returned", "raised"}

\* C4: the memory cache is idempotent.  A call without forceRefresh that
\* finds a snapshot younger than CACHE_DURATION returns that very list at
\* once, with no request, no access to the cache files and no parse, and
\* leaves the snapshot as it is; any other call is not served from memory.
C4_MemoryCacheIdempotent ==
    [][\A c \in Calls :
          Entered(c) =>
              IF /\ ~forceRefresh'[c]
                 /\ cachedContacts # Null
                 /\ clock - lastFetchTime < CACHE_DURATION
              THEN /\ pc'[c] = "returned"
                   /\ via'[c] = "hit"
                   /\ result'[c] = cachedContacts
                   /\ work'[c] = {}
                   /\ cachedContacts' = cachedContacts
                   /\ lastFetchTime' = lastFetchTime
              ELSE via'[c] # "hit"]_vars

\* a second call served from the snapshot a first call wrote
C4_Witness ==
    \E c \in Calls :
        /\ Returned(c)
        /\ via[c] = "hit"
        /\ started = 2
        /\ result[c] = cachedContacts
        /\ result[c].items # <<>>
        /\ work[c] = {}

\* C5: every contact of every list handed to a caller, and of the snapshot,
\* is meaningful: its name is not 'Unknown Contact', or its email, phone or
\* company is not empty.
C5_ReturnedContactsValid ==
    /\ \A c \in Calls :
          result[c] # Null =>
              \A i \in 1..Len(result[c].items) : meaningful(result[c].items[i])
    /\ cachedContacts # Null =>
          \A i \in 1..Len(cachedContacts.items) : meaningful(cachedContacts.items[i])

\* a list from a feed that had a row without any identifying field
C5_Witness ==
    \E c \in Calls :
        /\ Returned(c)
        /\ via[c] = "acquired"
        /\ result[c].items = ListTable.good
        /\ Len(ParseTable.good.data) > Len(ListTable.good)

\* C6: the snapshot is a consistent pair: either there is no list and the
\* timestamp is zero, or the timestamp is the one the call that built the
\* list stored with it.
C6_SnapshotConsistent ==
    IF cachedContacts = Null
    THEN lastFetchTime = 0
    ELSE lastFetchTime = cachedContacts.at

\* two overlapping calls have both written the snapshot, and the one that
\* started first wrote last
C6_Witness ==
    /\ Returned(1) /\ Returned(2)
    /\ via[1] = "acquired" /\ via[2] = "acquired"
    /\ now[1] < now[2]
    /\ cachedContacts = result[1]
    /\ lastFetchTime = now[1]

-----------------------------------------------------------------------------
(* Properties of the cache files *)

\* C7: payload and sidecar change together: whenever the sidecar exists the
\* payload exists and is the body the sidecar was written for.
C7_SidecarDescribesPayload ==
    cacheInfo # Null =>
        /\ cacheFile # "absent"
        /\ cacheFile # "partial"
        /\ LengthTable[cacheFile] = cacheInfo.size

\* C8: a download that fails, or ends with a status other than 200, leaves
\* a payload stored before it as it was.
C8_FailedDownloadKeepsPayload ==
    [][\A c \in Calls :
          (pc[c] = "cache_download" /\ pc'[c] = "catch_info" /\ cacheFile # "absent")
              => cacheFile' = cacheFile]_vars

\* C9: downloadAndCacheCSV downloads exactly when it found no sidecar or
\* read one whose age is at least ten minutes: no download was started
\* otherwise, and a call that completed after either finding started one.
C9_DownloadIffStale ==
    \A c \in Calls :
        LET s     == store[c]
            stale == \/ s.infoSeen = "absent"
                     \/ s.infoSeen = "read" /\ s.age >= CACHE_FRESH_MS
        IN  /\ s.download # "none" => stale
            /\ (s.outcome # "none" /\ stale) => s.download # "none"

\* a sidecar of exactly ten minutes was read and a download followed
C9_Witness ==
    \E c \in Calls :
        /\ store[c].infoSeen = "read"
        /\ store[c].age = 2 * TickMs
        /\ store[c].download # "none"
        /\ store[c].outcome = "returned"

\* C10: after a failed download the call returns the payload on disk
\* whenever there is one, however old, and throws only when there is none.
C10_DegradedSuccess ==
    \A c \in Calls :
        (store[c].download = "failed" /\ store[c].outcome # "none")
            => IF store[c].fileAtEnd = "absent"
               THEN store[c].outcome = "raised"
               ELSE /\ store[c].outcome = "returned"
                    /\ store[c].returned = store[c].fileAtEnd

\* a failed download after a stale sidecar, answered with the old payload
C10_Witness ==
    \E c \in Calls :
        /\ store[c].infoSeen = "read"
        /\ store[c].age >= CACHE_FRESH_MS
        /\ store[c].download = "failed"
        /\ store[c].outcome = "returned"
        /\ store[c].returned = "good"

-----------------------------------------------------------------------------
(* The Network Fetcher *)

\* C11: fetchCSVFromURL makes at most 3 attempts; the delay waited after
\* failed attempt k (k < 3) is k times the base delay, so the delays strictly
\* increase; after the third failed attempt no request follows and the call
\* rejects with the terminal error, which carries the cause of that third
\* failure.
C11_ThreeAttemptsLinearBackoff ==
    /\ Cardinality(Requests(fetchLog)) <= 3
    /\ IF Requests(fetchLog) = {}
       THEN backoff = <<>>
       ELSE Len(backoff) = Cardinality(Requests(fetchLog)) - 1
    /\ \A k \in 1..Len(backoff) :
        /\ k < 3
        /\ backoff[k] = k * RETRY_BASE_MS
        /\ \A j \in 1..Len(backoff) : j < k => backoff[j] < backoff[k]
    /\ \A i \in Failures(fetchLog) :
        fetchLog[i].attempt = 3
            => /\ i = Len(fetchLog)
               /\ fetchPc = "rejected"
               /\ fetched.error = "terminal"
               /\ fetched.cause = fetchLog[i].cause

\* three attempts failed, after delays of one and two base delays
C11_Witness ==
    /\ fetchPc = "rejected"
    /\ fetched.error = "terminal"
    /\ fetched.cause = "abort"
    /\ Cardinality(Requests(fetchLog)) = 3
    /\ backoff = <<RETRY_BASE_MS, 2 * RETRY_BASE_MS>>

\* C12 as stated: after HTTP 500 on all 3 attempts the call has rejected with
\* 3 logged attempts and has waited at least 1+2+3 base delays.
C12_BackoffSixUnits ==
    (/\ Cardinality(Failures(fetchLog)) = 3
     /\ \A i \in Failures(fetchLog) : fetchLog[i].cause = "http500")
        => /\ fetchPc = "rejected"
           /\ fetched.error = "terminal"
           /\ Cardinality(Requests(fetchLog)) = 3
           /\ Sum(backoff) >= (1 + 2 + 3) * RETRY_BASE_MS

\* C12 as amended: after HTTP 500 on all 3 attempts the call has rejected with
\* 3 logged attempts and has waited at least 1+2 base delays: one delay after
\* each of the first two attempts, none after the third.
C12_BackoffThreeUnits ==
    (/\ Cardinality(Failures(fetchLog)) = 3
     /\ \A i \in Failures(fetchLog) : fetchLog[i].cause = "http500")
        => /\ fetchPc = "rejected"
           /\ fetched.error = "terminal"
           /\ fetched.cause = "http500"
           /\ Cardinality(Requests(fetchLog)) = 3
           /\ Sum(backoff) >= (1 + 2) * RETRY_BASE_MS

\* HTTP 500 three times over
C12_Witness ==
    /\ Cardinality(Failures(fetchLog)) = 3
    /\ \A i \in Failures(fetchLog) : fetchLog[i].cause = "http500"
    /\ fetchPc = "rejected"
    /\ Sum(backoff) = 3 * RETRY_BASE_MS

\* C13: while the call is suspended on a network operation (the request or
\* the reading of the body) an abort timer of the running attempt is armed,
\* and no timer of an attempt that has ended is still pending.
C13_BoundedAndCancelled ==
    /\ fetchPc \in {"fetch", "text"} => \E x \in timers : x.attempt = fetchAttempt
    /\ \A x \in timers : x.attempt = fetchAttempt /\ fetchPc \in {"fetch", "text"}

\* C14: a text handed on by fetchCSVFromURL comes from a successful response
\* and has at least 100 characters; a response with another status or a
\* shorter body is a failed attempt: it is followed by the next attempt while
\* fewer than 3 have been made, and by the terminal error after the third.
C14_RejectsBadResponses ==
    /\ fetched.text # "none"
        => fetched.status = 200 /\ lengthOf(fetched.text) >= 100
    /\ \A i \in Failures(fetchLog) :
        fetchLog[i].cause \in {"http500", "small"}
            => IF fetchLog[i].attempt < 3
               THEN \/ i = Len(fetchLog) /\ fetchPc = "delay"
                    \/ /\ i < Len(fetchLog)
                       /\ fetchLog[i + 1] = Logged(fetchLog[i].attempt + 1, "fetching", "none")
               ELSE /\ fetchLog[i].attempt = 3
                    /\ i = Len(fetchLog)
                    /\ fetchPc = "rejected"
                    /\ fetched.error = "terminal"

\* a short body, then HTTP 500, then a feed that is handed to the parser
C14_Witness ==
    /\ fetchPc = "resolved"
    /\ fetched.text = "good"
    /\ Len(fetchLog) = 5
    /\ fetchLog[2].cause = "small"
    /\ fetchLog[4].cause = "http500"

-----------------------------------------------------------------------------
(* The Structured Parser *)

\* C15: parseCSVWithFallbacks returns a list with at least one record or
\* throws: a strategy that produced no valid record counts as failed.
C15_NeverEmpty ==
    /\ parsePc = "returned" => Len(parsed) >= 1
    /\ \A i \in 1..Len(outcomes) : outcomes[i].data = <<>> => ~outcomes[i].ok

\* C16: the strategies run in the order strict, relaxed, manual, each only
\* after all before it failed; the first that yields a valid record ends the
\* loop and its records are what the call returns.
C16_StrategiesInOrder ==
    /\ Len(outcomes) <= 3
    /\ \A i \in 1..Len(outcomes) :
        /\ outcomes[i].name = <<"Enhanced Standard", "Relaxed", "Manual">>[i]
        /\ i < Len(outcomes) => ~outcomes[i].ok
        /\ Len(outcomes[i].data) >= 1
            => /\ i = Len(outcomes)
               /\ parsePc = "returned"
               /\ parsed = outcomes[i].data
    /\ parsePc = "returned" => outcomes # <<>> /\ parsed = outcomes[Len(outcomes)].data
    /\ parsePc = "loop" => strategy = Len(outcomes) + 1
    /\ parsePc = "thrown" => Len(outcomes) = 3 /\ \A i \in 1..3 : ~outcomes[i].ok

\* strict and relaxed found nothing valid and the manual parser found a record
C16_Witness ==
    /\ parsePc = "returned"
    /\ Len(outcomes) = 3
    /\ Len(parsed) >= 1

\* C17: the records a Papa strategy accepts are those with more than one
\* populated field and a non-empty identifying field under any known alias
\* of name, email, phone or company; the lines the manual parser keeps are
\* those with such an identifying field.
C17_AliasAwareValidity ==
    LET IdentifyingAliases ==
            {K_Name, K_name,
             K_Email, K_email, K_Email_Address,
             K_Phone, K_phone, K_mobile, K_telephone,
             K_Company_name, K_Company_sp_name, K_company, K_organisation, K_Company}
        hasIdentifying(record) ==
            \E k \in IdentifyingAliases : k \in DOMAIN record /\ trim(record[k]) # <<>>
        acceptable(record) ==
            /\ Cardinality({k \in DOMAIN record : record[k] # <<>>}) > 1
            /\ hasIdentifying(record)
    IN  \A i \in 1..Len(outcomes) :
            outcomes[i].data =
                IF outcomes[i].name = "Manual"
                THEN SelectSeq(outcomes[i].rows, hasIdentifying)
                ELSE SelectSeq(outcomes[i].rows, acceptable)

-----------------------------------------------------------------------------
(* Export, connection status and the snapshot *)

\* C18: a contact list returned by getContacts, exported with the fixed
\* columns and taken in again through the parser and the normalizer, comes
\* back with the same number of contacts, each equal on every field except
\* _original.
C18_ExportRoundTrip ==
    LET sameContacts(a, b) ==
            /\ Len(a) = Len(b)
            /\ \A i \in 1..Len(a) : \A f \in CanonicalFields : a[i][f] = b[i][f]
    IN  \A c \in Calls :
            Returned(c) => sameContacts(reIngest(exportContacts(result[c].items)),
                                        result[c].items)

\* C19: the connection status shown after a load tells a degraded load from
\* a successful primary fetch: when the sample data served a remote-mode load
\* after every remote stage failed, or the cache stage served the payload on
\* disk after its download failed, the status set is not 'connected'.
C19_DegradedStatusDiffers ==
    [][\A c \in Calls :
          (/\ pc'[c] = "returned"
           /\ via'[c] = "acquired"
           /\ \/ pc[c] = "local" /\ ~localMode[c]
              \/ pc[c] = "cache_parse" /\ store[c].download = "failed")
              => connectionStatus(FALSE, result'[c].items) # "connected"]_vars

\* C20: when a call returns the contacts a stage produced, the snapshot
\* holds at that moment the very list returned, stamped with the time the
\* call took at its start, and the list is the normalized, filtered form of
\* what the stage produced.
C20_SnapshotIsReturnedList ==
    [][\A c \in Calls :
          (pc[c] # "returned" /\ pc'[c] = "returned" /\ via'[c] = "acquired")
              => /\ cachedContacts' = result'[c]
                 /\ lastFetchTime' = now[c]
                 /\ result'[c].at = now[c]
                 /\ \A i \in 1..Len(result'[c].items) : meaningful(result'[c].items[i])
                 /\ IF pc[c] = "local" THEN result'[c].items = SampleList
                    ELSE IF pc[c] = "cache_parse"
                    THEN result'[c].items = ListTable[text[c]]
                    ELSE result'[c].items \in {ListTable[b] : b \in Bodies}]_vars

\* the cache stage produced the list that is returned and stored
C20_Witness ==
    \E c \in Calls :
        /\ Returned(c)
        /\ via[c] = "acquired"
        /\ attempted[c] = <<"primary", "cache">>
        /\ result[c].items # <<>>
        /\ cachedContacts = result[c]
        /\ lastFetchTime = now[c]

-----------------------------------------------------------------------------
(* getContacts: the outer catch block and forced calls *)

\* C21: when an unexpected error escapes the whole acquisition chain, the
\* call returns the snapshot held at that moment, however old it is, and the
\* normalized sample data when there is none; the step writes neither the
\* snapshot nor its timestamp.
C21_OuterCatchServesSnapshot ==
    [][\A c \in Calls :
          (pc[c] # "returned" /\ pc'[c] = "returned"
              /\ via'[c] \in {"stale", "sample_catch"})
            => /\ cachedContacts' = cachedContacts
               /\ lastFetchTime' = lastFetchTime
               /\ IF cachedContacts # Null
                  THEN result'[c] = cachedContacts /\ via'[c] = "stale"
                  ELSE /\ via'[c] = "sample_catch"
                       /\ result'[c].items =
                            [i \in 1..Len(loadLocalCSV) |-> formatContact(loadLocalCSV[i])]]_vars

\* a call ended by the outer catch block with a snapshot older than the
\* freshness window
C21_Witness ==
    \E c \in Calls :
        /\ Returned(c)
        /\ via[c] = "stale"
        /\ cachedContacts # Null
        /\ result[c] = cachedContacts
        /\ now[c] - lastFetchTime >= CACHE_DURATION

\* C22: getContacts(true) never takes the cache-hit return: whatever the
\* snapshot and its age, a forced call starts with the primary fetch, or
\* with the sample data in local mode.
C22_ForcedCallSkipsCacheHit ==
    [][\A c \in Calls :
          (Entered(c) /\ forceRefresh'[c])
            => /\ via'[c] # "hit"
               /\ result'[c] = Null
               /\ pc'[c] = IF localMode'[c] THEN "local" ELSE "primary"
               /\ attempted'[c] = IF localMode'[c] THEN <<"sample">> ELSE <<"primary">>]_vars

\* a forced call in remote mode at its primary fetch while a snapshot younger
\* than 5 minutes exists
C22_Witness ==
    \E c \in Calls :
        /\ forceRefresh[c]
        /\ pc[c] = "primary"
        /\ ~localMode[c]
        /\ cachedContacts # Null
        /\ now[c] - lastFetchTime < CACHE_DURATION

-----------------------------------------------------------------------------
(* The Field Normalizer *)

C24_IdWhitespaceRemoved ==
    formatted # Null =>
        \A i \in 1..Len(rawRecords) :
            (K_id \notin DOMAIN rawRecords[i] \/ rawRecords[i][K_id] = <<>>)
                => formatted.items[i].id =
                       SelectSeq(formatted.items[i].name \o <<"_">> \o formatted.items[i].email,
                                 LAMBDA ch : ch \notin WS)

\* C24, amended: without an explicit id, the id is name, "_", email with
\* every whitespace character replaced by "_"; it has the length of the
\* three parts together.
C24_IdWhitespaceUnderscored ==
    formatted # Null =>
        \A i \in 1..Len(rawRecords) :
            (K_id \notin DOMAIN rawRecords[i] \/ rawRecords[i][K_id] = <<>>)
                => LET joined == formatted.items[i].name \o <<"_">> \o formatted.items[i].email
                   IN  /\ Len(formatted.items[i].id) = Len(joined)
                       /\ \A j \in 1..Len(joined) :
                             formatted.items[i].id[j] =
                                 IF joined[j] \in WS THEN "_" ELSE joined[j]

\* a record without id whose name has two blanks in a row, formatted
C24_Witness ==
    /\ formatted # Null
    /\ K_id \notin DOMAIN rawRecords[1]
    /\ K_Email \in DOMAIN rawRecords[1]
    /\ formatted.items[1].name = <<"A", " ", " ", "B">>
    /\ formatted.items[1].id = <<"A", "_", "_", "B", "_", "E", "m", "a", "i", "l">>

\* C26: a phone value with exactly 10 digits is shown as (XXX) XXX-XXXX with
\* its digits in their order; a phone value with any other number of digits
\* is returned as it was given.  (The phone value of a record is its Phone
\* property, unless that is empty and another phone alias is populated.)
C26_PhoneTenDigits ==
    formatted # Null =>
        \A i \in 1..Len(rawRecords) :
            (/\ K_Phone \in DOMAIN rawRecords[i]
             /\ rawRecords[i][K_Phone] = <<>>
                   => \A k \in {K_phone, K_mobile, K_telephone} :
                          k \in DOMAIN rawRecords[i] => rawRecords[i][k] = <<>>) =>
                LET phone  == rawRecords[i][K_Phone]
                    digits == SelectSeq(phone, LAMBDA ch : ch \in Digits)
                IN  formatted.items[i].phone =
                        IF phone # <<>> /\ Len(digits) = 10
                        THEN <<"(", digits[1], digits[2], digits[3], ")", " ",
                               digits[4], digits[5], digits[6], "-",
                               digits[7], digits[8], digits[9], digits[10]>>
                        ELSE phone

\* a phone value of ten digits written with a sign, a blank and a dash, formatted
C26_Witness ==
    /\ formatted # Null
    /\ DOMAIN rawRecords[1] = {K_Phone}
    /\ rawRecords[1][K_Phone] =
           <<"+", "4", "7", "7", " ", "4", "4", "7", "-", "7", "4", "7", "4">>
    /\ formatted.items[1].phone =
           <<"(", "4", "7", "7", ")", " ", "4", "4", "7", "-", "7", "4", "7", "4">>

-----------------------------------------------------------------------------
(* The Structured Parser and the Normalizer together; the manual parser *)

\* C25: the text "Name,Email\nJohn Doe,john@x.com\n" is accepted by the
\* first (strict) strategy as exactly one record, and formatting that record
\* gives the name "John Doe", the email "john@x.com", the id
\* "John_Doe_john@x.com" and the phone "".
C25_JohnDoeScenario ==
    parseText = TextJohnDoe =>
        /\ outcomes # <<>> =>
              /\ outcomes[1].name = "Enhanced Standard"
              /\ outcomes[1].ok
              /\ Len(outcomes[1].data) = 1
              /\ Len(outcomes) = 1
              /\ parsePc = "returned"
              /\ parsed = outcomes[1].data
        /\ formatted # Null =>
              /\ Len(formatted.items) = 1
              /\ formatted.items[1].name = <<"J", "o", "h", "n", " ", "D", "o", "e">>
              /\ formatted.items[1].email =
                    <<"j", "o", "h", "n", "@", "x", ".", "c", "o", "m">>
              /\ formatted.items[1].id =
                    <<"J", "o", "h", "n", "_", "D", "o", "e", "_",
                      "j", "o", "h", "n", "@", "x", ".", "c", "o", "m">>
              /\ formatted.items[1].phone = <<>>

\* the text of the scenario parsed and its record formatted
C25_Witness ==
    /\ parseText = TextJohnDoe
    /\ parsePc = "returned"
    /\ formatted # Null
    /\ Len(formatted.items) = 1

\* C28: when the CSV library reports an error for a row, the strict
\* strategy fails as a whole, the relaxed strategy runs next, and what the
\* relaxed strategy accepts is what the call returns.
C28_StrictFailsOnParseError ==
    \A i \in 1..Len(outcomes) :
        (outcomes[i].name = "Enhanced Standard" /\ outcomes[i].errors > 0)
            => /\ ~outcomes[i].ok
               /\ Len(outcomes) > i =>
                     /\ outcomes[i + 1].name = "Relaxed"
                     /\ outcomes[i + 1].ok =>
                           parsePc = "returned" /\ parsed = outcomes[i + 1].data

\* C29: the manual parser splits the header line as it splits a data line,
\* at the commas outside quotes: it finds as many header names as the header
\* line has such fields.
C29_HeaderSplitQuoteAware ==
    \A i \in 1..Len(outcomes) :
        (outcomes[i].name = "Manual" /\ outcomes[i].ok)
            => Len(outcomes[i].headers) =
                   Len(manualValues(trim(split(parseText, "\n")[1]), 1, <<>>))

\* C30: every record the manual parser returns has exactly the header names
\* as its keys: a header beyond the values of a short line is there, with the
\* empty string.
C30_ManualRecordKeys ==
    \A i \in 1..Len(outcomes) :
        outcomes[i].name = "Manual" =>
            \A j \in 1..Len(outcomes[i].data) :
                /\ DOMAIN outcomes[i].data[j] =
                       {outcomes[i].headers[k] : k \in 1..Len(outcomes[i].headers)}
                /\ \A k \in 1..Len(outcomes[i].headers) :
                       k > Len(manualValues(manualNonBlank(split(parseText, "\n"))[j], 1, <<>>))
                           => outcomes[i].data[j][outcomes[i].headers[k]] = <<>>

-----------------------------------------------------------------------------
(* The configuration *)

\* C27: the fetcher and the cache use the values of the configuration: no
\* more attempts than config.maxRetries, a delay of attempt times
\* config.retryDelay before a retry, the abort timer of an attempt due
\* config.connectionTimeout after its start, a snapshot window of
\* config.cacheTimeout and the relay config.corsProxy.
C27_ConfigConsumed ==
    /\ Cardinality(Requests(fetchLog)) <= config.maxRetries
    /\ \A i \in 1..Len(backoff) : backoff[i] = i * config.retryDelay
    /\ fetchPc = "fetch" =>
          \E x \in timers :
              x.attempt = fetchAttempt /\ x.due = fetchClock + config.connectionTimeout
    /\ CACHE_DURATION = config.cacheTimeout
    /\ proxyUrlPrefix = config.corsProxy

-----------------------------------------------------------------------------
(* The snapshot in memory, the concurrent calls, the offline mode *)

\* C31: the snapshot in memory (list and timestamp) changes only in the
\* final write of a getContacts call whose acquisition succeeded and in
\* clearContactsCache, alone or at the start of retryWithDifferentMethod (and
\* it is lost when the process is restarted); the steps
\* of the fetching stages, of the parsers and of the cache store
\* (downloadAndCacheCSV, clearCache) leave it unchanged, and a fetch that
\* failed leaves the snapshot and the cache files as they were.
C31_SnapshotFrame ==
    [][/\ (cachedContacts' # cachedContacts \/ lastFetchTime' # lastFetchTime)
            => \/ \E c \in Calls :
                    /\ pc[c] \in {"local", "primary", "cache_parse", "alt", "proxy"}
                    /\ pc'[c] = "returned"
                    /\ via'[c] = "acquired"
                    /\ cachedContacts' = result'[c]
                    /\ lastFetchTime' = now[c]
               \/ /\ cachedContacts' = Null
                  /\ lastFetchTime' = 0
                  /\ \A c \in Calls : failed'[c] \subseteq failed[c]
                  /\ \/ UNCHANGED <<cacheFile, cacheInfo, clearing>>
                     \/ pc' = [c \in Calls |-> "idle"]
       /\ \A c \in Calls :
            (failed'[c] \ failed[c]) \cap {"primary", "alt", "proxy"} # {}
                => UNCHANGED <<cachedContacts, lastFetchTime, cacheFile, cacheInfo>>
       /\ (cacheFile' # cacheFile \/ cacheInfo' # cacheInfo \/ clearing' # clearing)
            => \/ UNCHANGED <<cachedContacts, lastFetchTime>>
               \/ pc' = [c \in Calls |-> "idle"]]_vars

\* the primary fetcher has failed in a call while a snapshot was in memory,
\* and the snapshot is still the list an earlier call wrote
C31_Witness ==
    \E c \in Calls :
        /\ "primary" \in failed[c]
        /\ pc[c] = "cache_info"
        /\ cachedContacts # Null
        /\ cachedContacts.items # <<>>
        /\ lastFetchTime = cachedContacts.at

\* C34: the timestamp stored with the snapshot is the time the writing call
\* took when it started (now, line 409), not the time of the write: a call
\* that starts reads the clock, keeps that value while it runs and stamps
\* the snapshot with it, so of two overlapping calls the one that finishes
\* last installs its own start time, which may be the earlier one, and the
\* stored timestamp is never later than the moment of the write.
C34_TimestampIsCallStart ==
    /\ [](lastFetchTime <= clock)
    /\ [][\A c \in Calls :
            /\ Entered(c) => now'[c] = clock
            /\ (pc[c] \notin {"idle", "returned", "raised"}
                    /\ pc' # [d \in Calls |-> "idle"])
                    => now'[c] = now[c]
            /\ (pc[c] # "returned" /\ pc'[c] = "returned" /\ via'[c] = "acquired")
                    => /\ lastFetchTime' = now[c]
                       /\ lastFetchTime' <= clock']_vars

\* two calls overlapped: the one that started first finished last, and the
\* snapshot carries its list and its earlier start time, while the clock
\* has moved on
C34_Witness ==
    \E c, d \in Calls :
        /\ Returned(c) /\ Returned(d)
        /\ via[c] = "acquired" /\ via[d] = "acquired"
        /\ now[c] < now[d]
        /\ cachedContacts = result[c]
        /\ lastFetchTime = now[c]
        /\ lastFetchTime < clock

C36_FreshReadErrorNotRedownloaded ==
    /\ [](\A c \in Calls :
            (store[c].infoSeen = "read" /\ isFresh(store[c].age))
                => /\ store[c].download = "none"
                   /\ pc[c] \notin {"cache_download", "cache_writeinfo", "cache_readnew"})
    /\ [][\A c \in Calls :
            /\ (pc[c] = "cache_fresh" /\ pc'[c] \notin {"cache_fresh", "idle"}
                    /\ cacheFile = "absent")
                    => /\ pc'[c] = "catch_info"
                       /\ store'[c].download = "none"
                       /\ UNCHANGED <<cacheFile, cacheInfo>>
            /\ (pc[c] = "catch_info" /\ pc'[c] \notin {"catch_info", "idle"}
                    /\ store[c].infoSeen = "read" /\ isFresh(store[c].age)
                    /\ cacheFile = "absent")
                    => /\ store'[c].outcome = "raised"
                       /\ store'[c].download = "none"
                       /\ "cache" \in failed'[c]
                       /\ pc'[c] = "alt"]_vars

\* the sidecar was fresh, the payload was gone: the call left the cache stage
\* with an error and without a download
C36_Witness ==
    \E c \in Calls :
        /\ store[c].infoSeen = "read"
        /\ isFresh(store[c].age)
        /\ store[c].download = "none"
        /\ store[c].outcome = "raised"
        /\ "cache" \in failed[c]
        /\ pc[c] = "alt"
        /\ cacheInfo # Null

\* C33 as stated: fetchCSVFromURL handles a response whose parsing raises an
\* error as a failed attempt, so a call can only be rejected with the terminal
\* error, after three requests.
C33_ParseErrorRetried ==
    fetchPc = "rejected"
        => /\ fetched.error = "terminal"
           /\ Cardinality(Requests(fetchLog)) = maxAttempts

\* C33, amended: a response that passes the status and size tests but whose
\* parsing raises an error ends the call at once: the parser's error leaves
\* fetchCSVFromURL as it is, no failure is logged, no delay is waited for and
\* no further request is made; the terminal error after three attempts is
\* raised only for failed requests, broken transfers, bad statuses and small
\* bodies.
C33_ParseErrorLeavesFetcher ==
    /\ [](fetched.error = "parse"
            => /\ fetchPc = "rejected"
               /\ \A i \in Failures(fetchLog) : fetchLog[i].attempt < fetchAttempt)
    /\ [](fetched.error = "terminal"
            => /\ fetched.cause \in {"http500", "network", "abort", "small"}
               /\ Cardinality(Requests(fetchLog)) = maxAttempts)
    /\ [][(fetchPc = "text" /\ fetchPc' # "text"
                /\ ~tooSmall(lengthOf(fetched.body))
                /\ ~parses(fetched.body))
            => \/ /\ fetchLog' = Append(fetchLog, Logged(fetchAttempt, "failed", "network"))
               \/ /\ fetchPc' = "rejected"
                  /\ fetched'.error = "parse"
                  /\ UNCHANGED <<fetchAttempt, fetchLog, backoff>>]_vars

\* the first response was complete and large enough, its parsing failed, and
\* the call is over after one request with the parser's error
C33_Witness ==
    /\ fetchPc = "rejected"
    /\ fetched.error = "parse"
    /\ fetched.status = 200
    /\ fetchAttempt = 1
    /\ Cardinality(Requests(fetchLog)) = 1
    /\ Failures(fetchLog) = {}
    /\ backoff = <<>>

\* C39: formatContact applied to a contact it produced yields a contact with
\* the same id, name, email, phone, company, address, city, state, country,
\* zip and balance; its _original is the contact it was given, not the raw
\* record.
C39_NormalizationIdempotent ==
    reformatted # Null
        => /\ Len(reformatted.items) = Len(formatted.items)
           /\ \A i \in 1..Len(formatted.items) :
                LET first == formatted.items[i]
                    again == reformatted.items[i]
                IN  /\ again.id = first.id
                    /\ again.name = first.name
                    /\ again.email = first.email
                    /\ again.phone = first.phone
                    /\ again.company = first.company
                    /\ again.address = first.address
                    /\ again.city = first.city
                    /\ again.state = first.state
                    /\ again.country = first.country
                    /\ again.zip = first.zip
                    /\ again.balance = first.balance
                    /\ again.original = asRawRecord(first)

\* a phone value of ten digits written with a sign, a blank and a dash was
\* rewritten by the first pass and is left as it is by the second, while
\* the name is the placeholder in both
C39_Witness ==
    /\ reformatted # Null
    /\ Len(formatted.items) = 1
    /\ K_Phone \in DOMAIN rawRecords[1]
    /\ Len(digitsOf(rawRecords[1][K_Phone])) = 10
    /\ rawRecords[1][K_Phone] # formatted.items[1].phone
    /\ reformatted.items[1].phone = formatted.items[1].phone
    /\ Len(reformatted.items[1].phone) = 14
    /\ reformatted.items[1].name = UnknownContact
    /\ reformatted.items[1].original # formatted.items[1].original

\* C37: once error is set and the error screen is shown, nothing the error
\* screen offers clears it: the Try Again button and the interval both call
\* loadContacts with a truthy silent argument, which neither sets loading nor
\* resets error, so the error stays, and with it the error screen, also
\* after a later load has brought contacts.
C37_ErrorScreenPersists ==
    /\ [](error # Null => screen = "error")
    /\ [](\A l \in Loads : loads[l].by \in {"timer", "try_again"} => loads[l].silent)
    /\ [][error # Null => error' # Null]_vars
    /\ [][screen = "error" => screen' = "error"]_vars

\* Try Again was pressed on the error screen, its load has resolved with
\* contacts, and the error screen is still shown
C37_Witness ==
    \E l \in Loads :
        /\ loads[l].by = "try_again"
        /\ loads[l].state = "completed"
        /\ \A k \in Loads : loads[k].state # "awaiting"
        /\ Len(appContacts) > 0
        /\ error = NoContactsFound
        /\ screen = "error"

\* C38: when a loadContacts call completes, loading and refreshing are both
\* false after it, whether the call was silent or not and whether or not
\* other calls are still waiting for getContacts; and every call that was
\* started completes, as its getContacts call resolves.
C38_FlagsClearedAtCompletion ==
    /\ [][\A l \in Loads :
            (loads[l].state = "awaiting" /\ loads'[l].state = "completed")
                => (~loading' /\ ~refreshing')]_vars
    /\ \A l \in Loads :
            (loads[l].state = "awaiting") ~> (loads[l].state = "completed")

\* a silent call has completed while the call of a pull to refresh is still
\* waiting: the flags that call had set are false already
C38_Witness ==
    \E l, k \in Loads :
        /\ loads[l].state = "completed" /\ loads[l].silent
        /\ loads[k].state = "awaiting" /\ loads[k].by = "pull"
        /\ ~loading
        /\ ~refreshing

\* C32: a getContacts call makes at most six network requests: at most three
\* by fetchCSVFromURL, at most one download of the cache stage, one fetch with
\* the alternate headers and one through the proxy; and, as every operation it
\* waits for settles, the call returns.
C32_SixRequestsAndReturns ==
    /\ [](\A c \in Calls :
            /\ requests[c].primary <= maxAttempts
            /\ requests[c].cache <= 1
            /\ requests[c].alt <= 1
            /\ requests[c].proxy <= 1
            /\ requests[c].primary + requests[c].cache + requests[c].alt
                   + requests[c].proxy <= 6)
    /\ \A c \in Calls :
            (pc[c] \notin {"idle", "returned"}) ~> (pc[c] = "returned")

\* every remote stage failed after its requests, six in all, and the call
\* has returned the sample data
C32_Witness ==
    \E c \in Calls :
        /\ Returned(c)
        /\ requests[c] = [primary |-> 3, cache |-> 1, alt |-> 1, proxy |-> 1]
        /\ failed[c] = {"primary", "cache", "alt", "proxy"}
        /\ attempted[c] = Ladder
====
